---- MODULE Spec2Model ----
(***************************************************************************)
(* The deployment orchestrator of the LambdaDeploy pipeline               *)
(* (src/temp-extract/src/lambda/deployment-orchestrator/index.js).         *)
(*                                                                         *)
(* One handler invocation receives one event, resolves the deployment     *)
(* configuration, downloads the input artifacts, dispatches to one of the  *)
(* backends, writes the output summaries and reports to CodePipeline.      *)
(* Every SDK call is a suspension point: it is issued by one action and    *)
(* settled (resolved or rejected) by a second one.                         *)
(***************************************************************************)
EXTENDS Integers, Sequences, FiniteSets, TLC

VARIABLES
    env,              \* process.env, read by getDeploymentConfig
    now,              \* the wall clock behind Date.now() / new Date()
    event,            \* event[i]: the event handed to invocation i
    pc,               \* pc[i]: the statement invocation i is at
    pending,          \* pending[i]: index in calls of the awaited call, 0 if none
    idx,              \* idx[i]: position of the running for..of loop
    config,           \* config[i]: the resolved deployment configuration
    artifacts,        \* artifacts[i]: name -> downloaded artifact
    updateResult,     \* updateResult[i]: response of the backend's mutating call
    deploymentResult, \* deploymentResult[i]
    error,            \* error[i]: message of the error in flight (<<>> if none)
    raised,           \* raised[i]: every error raised so far, in order
    calls,            \* every SDK call issued so far, in order, with its status
    response,         \* response[i]: what the invocation resolved or rejected with
    pipelineExecution, \* notification handler: pipelineExecution[i], the execution looked up
    slackMessage,     \* notification handler: the const message, the Slack message built
    locals,           \* setup scripts: locals[i], the local variables of the running script
    files             \* setup scripts: the paths that exist in the file system

vars == <<env, now, event, pc, pending, idx, config, artifacts, updateResult,
          deploymentResult, error, raised, calls, response, pipelineExecution, slackMessage,
          locals, files>>

\* The locals of the notification handler, which the orchestrator never touches.
notifierVars == <<pipelineExecution, slackMessage>>

\* The state of the setup scripts, which neither handler touches.
scriptVars == <<locals, files>>

\* The locals of the orchestrator, which the notification handler never touches.
orchestratorVars == <<config, artifacts, updateResult, deploymentResult>>

-----------------------------------------------------------------------------
(* Bounds of the model *)

MaxInputs == 2
MaxOutputs == 2
MaxTime == 1

-----------------------------------------------------------------------------
(* Values *)

Undefined == "<undefined>"
Unset == "<unset>"

EmptyObject == [k \in {} |-> Undefined]

Handlers == {"invocation-1"}

JobIds == {"job-1"}

\* Version numbers the Lambda service may answer an update with.
LambdaVersions == {"1", "7"}

\* Messages are sequences of text pieces; a template literal concatenates.
FaultMessages == {<<"AccessDenied">>, <<"NetworkingError">>}

TypeErrorNoJob == <<"Cannot read properties of undefined (reading 'id')">>

\* The artifacts a job may name, each at its own location in the artifact store.
InputRefs ==
    { [name |-> "BuildArtifact",
       location |-> [s3Location |-> [bucketName |-> "artifact-store", objectKey |-> "build.zip"]]],
      [name |-> "SourceOutput",
       location |-> [s3Location |-> [bucketName |-> "artifact-store", objectKey |-> "source.zip"]]],
      [name |-> "TestReport",
       location |-> [s3Location |-> [bucketName |-> "artifact-store", objectKey |-> "report.zip"]]] }

OutputPool ==
    << [name |-> "DeployOutput",
        location |-> [s3Location |-> [bucketName |-> "artifact-store", objectKey |-> "deploy.json"]]],
       [name |-> "AuditOutput",
        location |-> [s3Location |-> [bucketName |-> "artifact-store", objectKey |-> "audit.json"]]],
       [name |-> "ExtraOutput",
        location |-> [s3Location |-> [bucketName |-> "artifact-store", objectKey |-> "extra.json"]]],
       [name |-> "SpareOutput",
        location |-> [s3Location |-> [bucketName |-> "artifact-store", objectKey |-> "spare.json"]]] >>

\* Lists of input artifacts: names are unique within a job.
InputLists ==
    UNION { {s \in [1..n -> InputRefs] : \A a, b \in 1..n : a # b => s[a] # s[b]}
            : n \in 0..MaxInputs }

OutputLists == {SubSeq(OutputPool, 1, n) : n \in 0..MaxOutputs}

\* process.env of the function, as deployed.
Environments ==
    [DEPLOYMENT_TYPE : {Unset, "ecs"},
     TARGET_FUNCTION_NAME : {Unset},
     ENVIRONMENT : {Unset, "production"},
     AWS_REGION : {"eu-west-1"}]

\* actionConfiguration.configuration of the job.
ActionConfigurations ==
    { EmptyObject,
      [deploymentType |-> "lambda", targetFunction |-> "fn-1"],
      [deploymentType |-> "s3", bucketName |-> "site-bucket"],
      [deploymentType |-> "ecs", serviceName |-> "web", clusterName |-> "main"],
      [deploymentType |-> "carrier-pigeon"] }

JobEvents ==
    [hasJob : {TRUE}, id : JobIds, inputArtifacts : InputLists,
     outputArtifacts : OutputLists, configuration : ActionConfigurations]

NoJobEvent ==
    [hasJob |-> FALSE, id |-> Undefined, inputArtifacts |-> <<>>,
     outputArtifacts |-> <<>>, configuration |-> EmptyObject]

Events == JobEvents \cup {NoJobEvent}

StatusOk == 200

NoResult == [type |-> "<none>"]
NoResponse == [kind |-> "<none>"]

\* The stored object behind a location of the artifact store.
S3Object(bucket, key) ==
    [Body |-> <<"bytes of", bucket, key>>, Metadata |-> EmptyObject, ContentType |-> "application/zip"]

Get(obj, key) == IF key \in DOMAIN obj THEN obj[key] ELSE Undefined

\* a || b on strings: the empty, unset and undefined values are falsy.
OrElse(a, b) == IF a \in {Unset, Undefined, ""} THEN b ELSE a

-----------------------------------------------------------------------------
(* getDeploymentConfig *)

\* Variant: only the keys the target already has are copied.
Assign_KnownKeysOnly(target, source) ==
    [k \in DOMAIN target |-> IF k \in DOMAIN source THEN source[k] ELSE target[k]]

\* Object.assign(target, source): source wins key by key, other keys are kept.
Assign(target, source) ==
    [k \in DOMAIN target \cup DOMAIN source |->
        IF k \in DOMAIN source THEN source[k] ELSE target[k]]

ConfigFromEnv(e) ==
    [deploymentType |-> OrElse(e.DEPLOYMENT_TYPE, "lambda"),
     targetFunction |-> OrElse(e.TARGET_FUNCTION_NAME, "lambdadeploy-app"),
     environment    |-> OrElse(e.ENVIRONMENT, "development"),
     region         |-> OrElse(e.AWS_REGION, "us-east-1")]

\* Variant: the environment layer is applied last and overrides the job's keys.
ResolveConfig_EnvironmentWins(e, configuration) == Assign(configuration, ConfigFromEnv(e))

ResolveConfig(e, configuration) == Assign(ConfigFromEnv(e), configuration)

-----------------------------------------------------------------------------
(* Control flow helpers *)

\* Variant: the backend is dispatched before the artifacts are downloaded.
TryBlock_DispatchFirst ==
    << "getDeploymentConfig", "executeDeployment", "processArtifacts",
       "updateOutputArtifacts", "putJobSuccessResult", "return" >>

\* Variant: success is reported before the output summaries are written.
TryBlock_ReportFirst ==
    << "getDeploymentConfig", "processArtifacts", "executeDeployment",
       "putJobSuccessResult", "updateOutputArtifacts", "return" >>

\* The statements of the handler's try block, in program order.
TryBlock ==
    << "getDeploymentConfig", "processArtifacts", "executeDeployment",
       "updateOutputArtifacts", "putJobSuccessResult", "return" >>

After(stmt) == TryBlock[(CHOOSE k \in DOMAIN TryBlock : TryBlock[k] = stmt) + 1]

Goto(i, label) ==
    /\ pc' = [pc EXCEPT ![i] = label]
    /\ idx' = [idx EXCEPT ![i] = 1]

\* An error leaves the try block: control moves to the handler's catch clause.
Throw(i, message) ==
    /\ error' = [error EXCEPT ![i] = message]
    /\ raised' = [raised EXCEPT ![i] = Append(@, message)]
    /\ Goto(i, "catch")

\* Variant: the backend's catch clause drops the underlying message.
Wrapped_NoCause(prefix, message) == <<prefix>>

\* A backend's own catch clause: the error is replaced by a new, prefixed one.
Wrapped(prefix, message) == <<prefix>> \o message

ThrowWrapped(i, prefix, message) ==
    /\ error' = [error EXCEPT ![i] = Wrapped(prefix, message)]
    /\ raised' = [raised EXCEPT ![i] = @ \o <<message, Wrapped(prefix, message)>>]
    /\ Goto(i, "catch")

\* An SDK call: issued (.promise()), then awaited until it settles.
Issue(i, op, params) ==
    /\ pending[i] = 0
    /\ calls' = Append(calls, [inv |-> i, op |-> op, params |-> params, status |-> "pending"])
    /\ pending' = [pending EXCEPT ![i] = Len(calls) + 1]

Settle(i, status) ==
    /\ pending[i] # 0
    /\ calls' = [calls EXCEPT ![pending[i]].status = status]
    /\ pending' = [pending EXCEPT ![i] = 0]

\* Reading the clock (Date.now(), new Date()): time has passed since the last
\* reading, by any amount, and t is the time read.
ReadClock(t) ==
    /\ t \in now..MaxTime
    /\ now' = t

-----------------------------------------------------------------------------
(* exports.handler: entry *)

Extract(i) ==
    /\ pc[i] = "start"
    /\ IF event[i].hasJob
          THEN /\ Goto(i, TryBlock[1])
               /\ UNCHANGED <<error, raised>>
          ELSE Throw(i, TypeErrorNoJob)
    /\ UNCHANGED <<scriptVars, notifierVars, env, now, event, pending, config, artifacts, updateResult,
                   deploymentResult, calls, response>>

GetDeploymentConfig(i) ==
    /\ pc[i] = "getDeploymentConfig"
    /\ config' = [config EXCEPT ![i] = ResolveConfig(env, event[i].configuration)]
    /\ Goto(i, After("getDeploymentConfig"))
    /\ UNCHANGED <<scriptVars, notifierVars, env, now, event, pending, artifacts, updateResult,
                   deploymentResult, error, raised, calls, response>>

-----------------------------------------------------------------------------
(* processArtifacts *)

\* Variant: the input list is walked from its end.
GetObject_Reversed(i) ==
    /\ pc[i] = "processArtifacts"
    /\ idx[i] <= Len(event[i].inputArtifacts)
    /\ LET location == event[i].inputArtifacts[Len(event[i].inputArtifacts) + 1 - idx[i]].location.s3Location
       IN  Issue(i, "getObject", [Bucket |-> location.bucketName, Key |-> location.objectKey])
    /\ UNCHANGED <<scriptVars, notifierVars, env, now, event, pc, idx, config, artifacts, updateResult,
                   deploymentResult, error, raised, response>>

GetObject(i) ==
    /\ pc[i] = "processArtifacts"
    /\ idx[i] <= Len(event[i].inputArtifacts)
    /\ LET location == event[i].inputArtifacts[idx[i]].location.s3Location
       IN  Issue(i, "getObject", [Bucket |-> location.bucketName, Key |-> location.objectKey])
    /\ UNCHANGED <<scriptVars, notifierVars, env, now, event, pc, idx, config, artifacts, updateResult,
                   deploymentResult, error, raised, response>>

\* Variant: an artifact that cannot be downloaded is skipped.
GetObjectDone_SkipFailed(i) ==
    /\ pc[i] = "processArtifacts"
    /\ pending[i] # 0
    /\ \/ LET artifact == event[i].inputArtifacts[idx[i]]
              artifactData == S3Object(calls[pending[i]].params.Bucket,
                                       calls[pending[i]].params.Key)
          IN  /\ Settle(i, "ok")
              /\ artifacts' = [artifacts EXCEPT ![i] =
                     Assign(@, [n \in {artifact.name} |->
                         [data |-> artifactData.Body,
                          metadata |-> artifactData.Metadata,
                          contentType |-> artifactData.ContentType]])]
       \/ /\ Settle(i, "failed")
          /\ UNCHANGED artifacts
    /\ idx' = [idx EXCEPT ![i] = @ + 1]
    /\ UNCHANGED <<scriptVars, notifierVars, env, now, event, pc, config, updateResult, deploymentResult,
                   error, raised, response>>

\* Variant: a download that failed is attempted again.
GetObjectDone_Retry(i) ==
    /\ pc[i] = "processArtifacts"
    /\ pending[i] # 0
    /\ \/ LET artifact == event[i].inputArtifacts[idx[i]]
              artifactData == S3Object(calls[pending[i]].params.Bucket,
                                       calls[pending[i]].params.Key)
          IN  /\ Settle(i, "ok")
              /\ artifacts' = [artifacts EXCEPT ![i] =
                     Assign(@, [n \in {artifact.name} |->
                         [data |-> artifactData.Body,
                          metadata |-> artifactData.Metadata,
                          contentType |-> artifactData.ContentType]])]
              /\ idx' = [idx EXCEPT ![i] = @ + 1]
       \/ /\ Settle(i, "failed")
          /\ UNCHANGED <<artifacts, idx>>
    /\ UNCHANGED <<scriptVars, notifierVars, env, now, event, pc, config, updateResult, deploymentResult,
                   error, raised, response>>

GetObjectDone(i) ==
    /\ pc[i] = "processArtifacts"
    /\ pending[i] # 0
    /\ \/ LET artifact == event[i].inputArtifacts[idx[i]]
              artifactData == S3Object(calls[pending[i]].params.Bucket,
                                       calls[pending[i]].params.Key)
          IN  /\ Settle(i, "ok")
              /\ artifacts' = [artifacts EXCEPT ![i] =
                     Assign(@, [n \in {artifact.name} |->
                         [data |-> artifactData.Body,
                          metadata |-> artifactData.Metadata,
                          contentType |-> artifactData.ContentType]])]
              /\ idx' = [idx EXCEPT ![i] = @ + 1]
              /\ UNCHANGED <<pc, error, raised>>
       \/ \E fault \in FaultMessages :
              /\ Settle(i, "failed")
              /\ Throw(i, fault)
              /\ UNCHANGED artifacts
    /\ UNCHANGED <<scriptVars, notifierVars, env, now, event, config, updateResult, deploymentResult, response>>

ProcessArtifactsReturn(i) ==
    /\ pc[i] = "processArtifacts"
    /\ pending[i] = 0
    /\ idx[i] > Len(event[i].inputArtifacts)
    /\ Goto(i, After("processArtifacts"))
    /\ UNCHANGED <<scriptVars, notifierVars, env, now, event, pending, config, artifacts, updateResult,
                   deploymentResult, error, raised, calls, response>>

-----------------------------------------------------------------------------
(* executeDeployment and the backends *)

\* Variant: the switch has no default case and falls into the Lambda backend.
ExecuteDeployment_DefaultLambda(i) ==
    /\ pc[i] = "executeDeployment"
    /\ LET type == config[i].deploymentType
       IN  IF type = "ecs" THEN Goto(i, "deployToECS")
           ELSE IF type = "s3" THEN Goto(i, "deployToS3")
           ELSE Goto(i, "deployToLambda")
    /\ UNCHANGED <<scriptVars, notifierVars, env, now, event, pending, config, artifacts, updateResult,
                   deploymentResult, error, raised, calls, response>>

ExecuteDeployment(i) ==
    /\ pc[i] = "executeDeployment"
    /\ LET type == config[i].deploymentType
       IN  IF type = "lambda" THEN Goto(i, "deployToLambda") /\ UNCHANGED <<error, raised>>
           ELSE IF type = "ecs" THEN Goto(i, "deployToECS") /\ UNCHANGED <<error, raised>>
           ELSE IF type = "s3" THEN Goto(i, "deployToS3") /\ UNCHANGED <<error, raised>>
           ELSE Throw(i, <<"Unsupported deployment type: ", type>>)
    /\ UNCHANGED <<scriptVars, notifierVars, env, now, event, pending, config, artifacts, updateResult,
                   deploymentResult, calls, response>>

\* artifacts['BuildArtifact'] || artifacts['SourceOutput']
HasAppArtifact(arts) == "BuildArtifact" \in DOMAIN arts \/ "SourceOutput" \in DOMAIN arts

\* Variant: the source output is preferred over the build artifact.
AppArtifact_PreferSource(arts) ==
    IF "SourceOutput" \in DOMAIN arts THEN arts["SourceOutput"] ELSE arts["BuildArtifact"]

AppArtifact(arts) ==
    IF "BuildArtifact" \in DOMAIN arts THEN arts["BuildArtifact"] ELSE arts["SourceOutput"]

\* Variant: the 'lambda' case of the switch does not return and falls through
\* into the 'ecs' case.
ReturnResult_FallThrough(i, result) ==
    /\ deploymentResult' = [deploymentResult EXCEPT ![i] = result]
    /\ Goto(i, IF result.type = "lambda" THEN "deployToECS" ELSE After("executeDeployment"))

\* A backend returns its result to the handler's const deploymentResult.
ReturnResult(i, result) ==
    /\ deploymentResult' = [deploymentResult EXCEPT ![i] = result]
    /\ Goto(i, After("executeDeployment"))

\* Variant: the function-update result leaves the version out.
LambdaResult_NoVersion(updated) ==
    [type |-> "lambda", functionArn |-> updated.FunctionArn, lastModified |-> updated.LastModified]

LambdaResult(updated) ==
    [type |-> "lambda", functionArn |-> updated.FunctionArn,
     version |-> updated.Version, lastModified |-> updated.LastModified]

\* Variant: the check for an application artifact is missing.
DeployToLambda_NoCheck(i) ==
    /\ pc[i] = "deployToLambda"
    /\ Issue(i, "updateFunctionCode",
             [FunctionName |-> config[i].targetFunction,
              ZipFile |-> IF HasAppArtifact(artifacts[i])
                              THEN AppArtifact(artifacts[i]).data
                              ELSE Undefined])
    /\ Goto(i, "updateFunctionCode")
    /\ UNCHANGED <<scriptVars, notifierVars, env, now, event, config, artifacts, updateResult,
                   deploymentResult, error, raised, response>>

DeployToLambda(i) ==
    /\ pc[i] = "deployToLambda"
    /\ IF ~HasAppArtifact(artifacts[i])
          THEN /\ Throw(i, <<"No application artifact found for Lambda deployment">>)
               /\ UNCHANGED <<pending, calls>>
          ELSE /\ Issue(i, "updateFunctionCode",
                        [FunctionName |-> config[i].targetFunction,
                         ZipFile |-> AppArtifact(artifacts[i]).data])
               /\ Goto(i, "updateFunctionCode")
               /\ UNCHANGED <<error, raised>>
    /\ UNCHANGED <<scriptVars, notifierVars, env, now, event, config, artifacts, updateResult,
                   deploymentResult, response>>

\* Variant: the backend does not wait for the function to be updated.
UpdateFunctionCodeDone_NoWait(i) ==
    /\ pc[i] = "updateFunctionCode"
    /\ pending[i] # 0
    /\ \/ \E version \in LambdaVersions :
              LET updated == [FunctionArn |-> <<"arn:aws:lambda:function:", calls[pending[i]].params.FunctionName>>,
                              Version |-> version, LastModified |-> now]
              IN  /\ Settle(i, "ok")
                  /\ updateResult' = [updateResult EXCEPT ![i] = updated]
                  /\ IF config[i].environment # "production"
                        THEN Goto(i, "updateFunctionConfiguration") /\ UNCHANGED deploymentResult
                        ELSE ReturnResult(i, LambdaResult(updated))
                  /\ UNCHANGED <<error, raised>>
       \/ \E fault \in FaultMessages :
              /\ Settle(i, "failed")
              /\ ThrowWrapped(i, "Lambda deployment failed: ", fault)
              /\ UNCHANGED <<updateResult, deploymentResult>>
    /\ UNCHANGED <<scriptVars, notifierVars, env, now, event, config, artifacts, response>>

\* Variant: the code update is not inside the backend's try block.
UpdateFunctionCodeDone_Unwrapped(i) ==
    /\ pc[i] = "updateFunctionCode"
    /\ pending[i] # 0
    /\ \/ \E version \in LambdaVersions :
              /\ Settle(i, "ok")
              /\ updateResult' = [updateResult EXCEPT ![i] =
                     [FunctionArn |-> <<"arn:aws:lambda:function:", calls[pending[i]].params.FunctionName>>,
                      Version |-> version, LastModified |-> now]]
              /\ Goto(i, "waitFor")
              /\ UNCHANGED <<error, raised>>
       \/ \E fault \in FaultMessages :
              /\ Settle(i, "failed")
              /\ Throw(i, fault)
              /\ UNCHANGED updateResult
    /\ UNCHANGED <<scriptVars, notifierVars, env, now, event, config, artifacts, deploymentResult, response>>

UpdateFunctionCodeDone(i) ==
    /\ pc[i] = "updateFunctionCode"
    /\ pending[i] # 0
    /\ \/ \E version \in LambdaVersions :
              /\ Settle(i, "ok")
              /\ updateResult' = [updateResult EXCEPT ![i] =
                     [FunctionArn |-> <<"arn:aws:lambda:function:", calls[pending[i]].params.FunctionName>>,
                      Version |-> version, LastModified |-> now]]
              /\ Goto(i, "waitFor")
              /\ UNCHANGED <<error, raised>>
       \/ \E fault \in FaultMessages :
              /\ Settle(i, "failed")
              /\ ThrowWrapped(i, "Lambda deployment failed: ", fault)
              /\ UNCHANGED updateResult
    /\ UNCHANGED <<scriptVars, notifierVars, env, now, event, config, artifacts, deploymentResult, response>>

WaitFor(i) ==
    /\ pc[i] = "waitFor"
    /\ Issue(i, "waitFor", [state |-> "functionUpdated", FunctionName |-> config[i].targetFunction])
    /\ UNCHANGED <<scriptVars, notifierVars, env, now, event, pc, idx, config, artifacts, updateResult,
                   deploymentResult, error, raised, response>>

\* Variant: the outcome of the wait is ignored.
WaitForDone_IgnoreFailure(i) ==
    /\ pc[i] = "waitFor"
    /\ pending[i] # 0
    /\ \E status \in {"ok", "failed"} : Settle(i, status)
    /\ IF config[i].environment # "production"
          THEN Goto(i, "updateFunctionConfiguration") /\ UNCHANGED deploymentResult
          ELSE ReturnResult(i, LambdaResult(updateResult[i]))
    /\ UNCHANGED <<scriptVars, notifierVars, env, now, event, config, artifacts, updateResult, error, raised, response>>

\* Variant: after a failed wait the backend pushes the code once more.
WaitForDone_PushAgain(i) ==
    /\ pc[i] = "waitFor"
    /\ pending[i] # 0
    /\ \/ /\ Settle(i, "ok")
          /\ IF config[i].environment # "production"
                THEN Goto(i, "updateFunctionConfiguration") /\ UNCHANGED deploymentResult
                ELSE ReturnResult(i, LambdaResult(updateResult[i]))
       \/ /\ Settle(i, "failed")
          /\ Goto(i, "deployToLambda")
          /\ UNCHANGED deploymentResult
    /\ UNCHANGED <<scriptVars, notifierVars, env, now, event, config, artifacts, updateResult,
                   error, raised, response>>

\* Variant: the configuration is updated in every environment.
WaitForDone_AlwaysConfigure(i) ==
    /\ pc[i] = "waitFor"
    /\ pending[i] # 0
    /\ \/ /\ Settle(i, "ok")
          /\ Goto(i, "updateFunctionConfiguration")
          /\ UNCHANGED <<error, raised>>
       \/ \E fault \in FaultMessages :
              /\ Settle(i, "failed")
              /\ ThrowWrapped(i, "Lambda deployment failed: ", fault)
    /\ UNCHANGED <<scriptVars, notifierVars, env, now, event, config, artifacts, updateResult, deploymentResult, response>>

WaitForDone(i) ==
    /\ pc[i] = "waitFor"
    /\ pending[i] # 0
    /\ \/ /\ Settle(i, "ok")
          /\ IF config[i].environment # "production"
                THEN Goto(i, "updateFunctionConfiguration") /\ UNCHANGED deploymentResult
                ELSE ReturnResult(i, LambdaResult(updateResult[i]))
          /\ UNCHANGED <<error, raised>>
       \/ \E fault \in FaultMessages :
              /\ Settle(i, "failed")
              /\ ThrowWrapped(i, "Lambda deployment failed: ", fault)
              /\ UNCHANGED deploymentResult
    /\ UNCHANGED <<scriptVars, notifierVars, env, now, event, config, artifacts, updateResult, response>>

UpdateFunctionConfiguration(i) ==
    /\ pc[i] = "updateFunctionConfiguration"
    /\ \E t \in now..MaxTime :
          /\ ReadClock(t)
          /\ Issue(i, "updateFunctionConfiguration",
                   [FunctionName |-> config[i].targetFunction,
                    Environment |-> [Variables |-> [NODE_ENV |-> config[i].environment,
                                                    DEPLOYMENT_TIME |-> t]]])
    /\ UNCHANGED <<scriptVars, notifierVars, env, event, pc, idx, config, artifacts, updateResult,
                   deploymentResult, error, raised, response>>

UpdateFunctionConfigurationDone(i) ==
    /\ pc[i] = "updateFunctionConfiguration"
    /\ pending[i] # 0
    /\ \/ /\ Settle(i, "ok")
          /\ ReturnResult(i, LambdaResult(updateResult[i]))
          /\ UNCHANGED <<error, raised>>
       \/ \E fault \in FaultMessages :
              /\ Settle(i, "failed")
              /\ ThrowWrapped(i, "Lambda deployment failed: ", fault)
              /\ UNCHANGED deploymentResult
    /\ UNCHANGED <<scriptVars, notifierVars, env, now, event, config, artifacts, updateResult, response>>

\* Variant: the backend stores the default cluster name in the config.
DeployToECS_DefaultIntoConfig(i) ==
    /\ pc[i] = "deployToECS"
    /\ config' = [config EXCEPT ![i] =
           Assign(@, [clusterName |-> OrElse(Get(@, "clusterName"), "default")])]
    /\ Issue(i, "updateService",
             [cluster |-> OrElse(Get(config[i], "clusterName"), "default"),
              service |-> Get(config[i], "serviceName"),
              forceNewDeployment |-> TRUE])
    /\ Goto(i, "updateService")
    /\ UNCHANGED <<scriptVars, notifierVars, env, now, event, artifacts, updateResult,
                   deploymentResult, error, raised, response>>

\* Variant: the container-service backend asks for an application artifact.
DeployToECS_RequireArtifact(i) ==
    /\ pc[i] = "deployToECS"
    /\ IF ~HasAppArtifact(artifacts[i])
          THEN /\ ThrowWrapped(i, "ECS deployment failed: ",
                               <<"No application artifact found for ECS deployment">>)
               /\ UNCHANGED <<pending, calls>>
          ELSE /\ Issue(i, "updateService",
                        [cluster |-> OrElse(Get(config[i], "clusterName"), "default"),
                         service |-> Get(config[i], "serviceName"),
                         forceNewDeployment |-> TRUE])
               /\ Goto(i, "updateService")
               /\ UNCHANGED <<error, raised>>
    /\ UNCHANGED <<scriptVars, notifierVars, env, now, event, config, artifacts, updateResult,
                   deploymentResult, response>>

DeployToECS(i) ==
    /\ pc[i] = "deployToECS"
    /\ Issue(i, "updateService",
             [cluster |-> OrElse(Get(config[i], "clusterName"), "default"),
              service |-> Get(config[i], "serviceName"),
              forceNewDeployment |-> TRUE])
    /\ Goto(i, "updateService")
    /\ UNCHANGED <<scriptVars, notifierVars, env, now, event, config, artifacts, updateResult,
                   deploymentResult, error, raised, response>>

UpdateServiceDone(i) ==
    /\ pc[i] = "updateService"
    /\ pending[i] # 0
    /\ \/ LET service == [serviceArn |-> <<"arn:aws:ecs:service/", calls[pending[i]].params.cluster,
                                          calls[pending[i]].params.service>>,
                          taskDefinition |-> "current-task-definition"]
          IN  /\ Settle(i, "ok")
              /\ updateResult' = [updateResult EXCEPT ![i] = [service |-> service]]
              /\ ReturnResult(i, [type |-> "ecs", serviceArn |-> service.serviceArn,
                                  taskDefinition |-> service.taskDefinition])
              /\ UNCHANGED <<error, raised>>
       \/ \E fault \in FaultMessages :
              /\ Settle(i, "failed")
              /\ ThrowWrapped(i, "ECS deployment failed: ", fault)
              /\ UNCHANGED <<updateResult, deploymentResult>>
    /\ UNCHANGED <<scriptVars, notifierVars, env, now, event, config, artifacts, response>>

DeployToS3(i) ==
    /\ pc[i] = "deployToS3"
    /\ IF ~HasAppArtifact(artifacts[i])
          THEN /\ ThrowWrapped(i, "S3 deployment failed: ",
                               <<"No application artifact found for S3 deployment">>)
               /\ UNCHANGED <<now, pending, calls>>
          ELSE /\ \E t \in now..MaxTime :
                    /\ ReadClock(t)
                    /\ Issue(i, "upload",
                             [Bucket |-> Get(config[i], "bucketName"),
                              Key |-> <<"deployments/", t, "/app.zip">>,
                              Body |-> AppArtifact(artifacts[i]).data,
                              ContentType |-> "application/zip"])
               /\ Goto(i, "upload")
               /\ UNCHANGED <<error, raised>>
    /\ UNCHANGED <<scriptVars, notifierVars, env, event, config, artifacts, updateResult,
                   deploymentResult, response>>

UploadDone(i) ==
    /\ pc[i] = "upload"
    /\ pending[i] # 0
    /\ \/ LET uploadResult == [Location |-> <<calls[pending[i]].params.Bucket,
                                             calls[pending[i]].params.Key>>,
                               ETag |-> <<"etag of", calls[pending[i]].params.Body>>]
          IN  /\ Settle(i, "ok")
              /\ updateResult' = [updateResult EXCEPT ![i] = uploadResult]
              /\ ReturnResult(i, [type |-> "s3", location |-> uploadResult.Location,
                                  etag |-> uploadResult.ETag])
              /\ UNCHANGED <<error, raised>>
       \/ \E fault \in FaultMessages :
              /\ Settle(i, "failed")
              /\ ThrowWrapped(i, "S3 deployment failed: ", fault)
              /\ UNCHANGED <<updateResult, deploymentResult>>
    /\ UNCHANGED <<scriptVars, notifierVars, env, now, event, config, artifacts, response>>

-----------------------------------------------------------------------------
(* updateOutputArtifacts *)

\* The output artifacts that are written: none when the job data has no
\* outputArtifacts (the handler's guard: outputArtifacts && outputArtifacts.length > 0).
DeclaredOutputs(e) == IF "outputArtifacts" \in DOMAIN e THEN e.outputArtifacts ELSE <<>>

PutObject(i) ==
    /\ pc[i] = "updateOutputArtifacts"
    /\ idx[i] <= Len(DeclaredOutputs(event[i]))
    /\ \E t \in now..MaxTime :
          LET location == DeclaredOutputs(event[i])[idx[i]].location.s3Location
              summary == [deploymentResult |-> deploymentResult[i],
                          timestamp |-> t, status |-> "SUCCESS"]
          IN  /\ ReadClock(t)
              /\ Issue(i, "putObject",
                       [Bucket |-> location.bucketName, Key |-> location.objectKey,
                        Body |-> summary, ContentType |-> "application/json"])
    /\ UNCHANGED <<scriptVars, notifierVars, env, event, pc, idx, config, artifacts, updateResult,
                   deploymentResult, error, raised, response>>

\* Variant: a failed summary write is logged and skipped.
PutObjectDone_BestEffort(i) ==
    /\ pc[i] = "updateOutputArtifacts"
    /\ pending[i] # 0
    /\ \E status \in {"ok", "failed"} : Settle(i, status)
    /\ idx' = [idx EXCEPT ![i] = @ + 1]
    /\ UNCHANGED <<scriptVars, notifierVars, env, now, event, pc, config, artifacts, updateResult,
                   deploymentResult, error, raised, response>>

\* Variant: a failed summary write is skipped and the loop goes on.
PutObjectDone_SkipFailed(i) ==
    /\ pc[i] = "updateOutputArtifacts"
    /\ pending[i] # 0
    /\ \/ /\ Settle(i, "ok")
          /\ idx' = [idx EXCEPT ![i] = @ + 1]
          /\ UNCHANGED <<pc, error, raised>>
       \/ \E fault \in FaultMessages :
              /\ Settle(i, "failed")
              /\ idx' = [idx EXCEPT ![i] = @ + 1]
              /\ error' = [error EXCEPT ![i] = fault]
              /\ raised' = [raised EXCEPT ![i] = Append(@, fault)]
              /\ pc' = [pc EXCEPT ![i] = IF idx[i] < Len(DeclaredOutputs(event[i]))
                                             THEN "updateOutputArtifacts" ELSE "catch"]
    /\ UNCHANGED <<scriptVars, notifierVars, env, now, event, config, artifacts, updateResult,
                   deploymentResult, response>>

\* Variant: a failed summary write ends the loop without raising.
PutObjectDone_GiveUpQuietly(i) ==
    /\ pc[i] = "updateOutputArtifacts"
    /\ pending[i] # 0
    /\ \/ /\ Settle(i, "ok")
          /\ idx' = [idx EXCEPT ![i] = @ + 1]
          /\ UNCHANGED pc
       \/ /\ Settle(i, "failed")
          /\ Goto(i, After("updateOutputArtifacts"))
    /\ UNCHANGED <<scriptVars, notifierVars, env, now, event, config, artifacts, updateResult,
                   deploymentResult, error, raised, response>>

PutObjectDone(i) ==
    /\ pc[i] = "updateOutputArtifacts"
    /\ pending[i] # 0
    /\ \/ /\ Settle(i, "ok")
          /\ idx' = [idx EXCEPT ![i] = @ + 1]
          /\ UNCHANGED <<pc, error, raised>>
       \/ \E fault \in FaultMessages :
              /\ Settle(i, "failed")
              /\ Throw(i, fault)
    /\ UNCHANGED <<scriptVars, notifierVars, env, now, event, config, artifacts, updateResult,
                   deploymentResult, response>>

\* Variant: the loop over the output artifacts stops after the first one.
UpdateOutputArtifactsReturn_AfterFirst(i) ==
    /\ pc[i] = "updateOutputArtifacts"
    /\ pending[i] = 0
    /\ idx[i] > 1 \/ idx[i] > Len(DeclaredOutputs(event[i]))
    /\ Goto(i, After("updateOutputArtifacts"))
    /\ UNCHANGED <<scriptVars, notifierVars, env, now, event, pending, config, artifacts, updateResult,
                   deploymentResult, error, raised, calls, response>>

\* The handler's guard (outputArtifacts.length > 0) and the end of the loop.
UpdateOutputArtifactsReturn(i) ==
    /\ pc[i] = "updateOutputArtifacts"
    /\ pending[i] = 0
    /\ idx[i] > Len(DeclaredOutputs(event[i]))
    /\ Goto(i, After("updateOutputArtifacts"))
    /\ UNCHANGED <<scriptVars, notifierVars, env, now, event, pending, config, artifacts, updateResult,
                   deploymentResult, error, raised, calls, response>>

-----------------------------------------------------------------------------
(* Reporting to CodePipeline, and the end of the invocation *)

PutJobSuccessResult(i) ==
    /\ pc[i] = "putJobSuccessResult"
    /\ \E t \in now..MaxTime :
          /\ ReadClock(t)
          /\ Issue(i, "putJobSuccessResult",
                   [jobId |-> event[i].id,
                    outputVariables |->
                        [deploymentStatus |-> "SUCCESS",
                         deploymentTime |-> t,
                         deployedVersion |-> OrElse(Get(deploymentResult[i], "version"), "unknown")]])
    /\ UNCHANGED <<scriptVars, notifierVars, env, event, pc, idx, config, artifacts, updateResult,
                   deploymentResult, error, raised, response>>

PutJobSuccessResultDone(i) ==
    /\ pc[i] = "putJobSuccessResult"
    /\ pending[i] # 0
    /\ \/ /\ Settle(i, "ok")
          /\ Goto(i, After("putJobSuccessResult"))
          /\ UNCHANGED <<error, raised>>
       \/ \E fault \in FaultMessages :
              /\ Settle(i, "failed")
              /\ Throw(i, fault)
    /\ UNCHANGED <<scriptVars, notifierVars, env, now, event, config, artifacts, updateResult,
                   deploymentResult, response>>

Return(i) ==
    /\ pc[i] = "return"
    /\ response' = [response EXCEPT ![i] =
           [kind |-> "resolved", statusCode |-> StatusOk,
            body |-> [message |-> "Deployment orchestrated successfully",
                      jobId |-> event[i].id, result |-> deploymentResult[i]]]]
    /\ Goto(i, "done")
    /\ UNCHANGED <<scriptVars, notifierVars, env, now, event, pending, config, artifacts, updateResult,
                   deploymentResult, error, raised, calls>>

\* What the catch clause does once the failure report has settled.
Rethrow(i, message) ==
    /\ response' = [response EXCEPT ![i] = [kind |-> "rejected", message |-> message]]
    /\ Goto(i, "done")

\* Variant: the catch clause rethrows without reporting.
Catch_NoReport(i) ==
    /\ pc[i] = "catch"
    /\ Rethrow(i, error[i])
    /\ UNCHANGED <<scriptVars, notifierVars, env, now, event, pending, config, artifacts, updateResult,
                   deploymentResult, error, raised, calls>>

\* Variant: the catch clause reports without asking whether there is a job.
Catch_AlwaysReports(i) ==
    /\ pc[i] = "catch"
    /\ Issue(i, "putJobFailureResult",
             [jobId |-> event[i].id,
              failureDetails |-> [message |-> error[i], type |-> "JobFailed"]])
    /\ Goto(i, "putJobFailureResult")
    /\ UNCHANGED <<scriptVars, notifierVars, env, now, event, config, artifacts, updateResult,
                   deploymentResult, error, raised, response>>

\* Variant: the job id is kept outside the handler, where the first invocation left it.
Catch_SharedJobId(i) ==
    /\ pc[i] = "catch"
    /\ IF event[i].hasJob
          THEN /\ Issue(i, "putJobFailureResult",
                        [jobId |-> event["invocation-1"].id,
                         failureDetails |-> [message |-> error[i], type |-> "JobFailed"]])
               /\ Goto(i, "putJobFailureResult")
               /\ UNCHANGED response
          ELSE /\ Rethrow(i, error[i])
               /\ UNCHANGED <<pending, calls>>
    /\ UNCHANGED <<scriptVars, notifierVars, env, now, event, config, artifacts, updateResult,
                   deploymentResult, error, raised>>

Catch(i) ==
    /\ pc[i] = "catch"
    /\ IF event[i].hasJob
          THEN /\ Issue(i, "putJobFailureResult",
                        [jobId |-> event[i].id,
                         failureDetails |-> [message |-> error[i], type |-> "JobFailed"]])
               /\ Goto(i, "putJobFailureResult")
               /\ UNCHANGED response
          ELSE /\ Rethrow(i, error[i])
               /\ UNCHANGED <<pending, calls>>
    /\ UNCHANGED <<scriptVars, notifierVars, env, now, event, config, artifacts, updateResult,
                   deploymentResult, error, raised>>

\* Variant: after the failure report the handler returns an error result.
PutJobFailureResultDone_ReturnsError(i) ==
    /\ pc[i] = "putJobFailureResult"
    /\ pending[i] # 0
    /\ \E status \in {"ok", "failed"} : Settle(i, status)
    /\ response' = [response EXCEPT ![i] =
           [kind |-> "resolved", statusCode |-> 500,
            body |-> [message |-> "Deployment failed", jobId |-> event[i].id, result |-> NoResult]]]
    /\ Goto(i, "done")
    /\ UNCHANGED <<scriptVars, notifierVars, env, now, event, config, artifacts, updateResult,
                   deploymentResult, error, raised>>

\* Variant: a rejected failure report is attempted again.
PutJobFailureResultDone_Retry(i) ==
    /\ pc[i] = "putJobFailureResult"
    /\ pending[i] # 0
    /\ \/ /\ Settle(i, "ok")
          /\ Rethrow(i, error[i])
       \/ /\ Settle(i, "failed")
          /\ Goto(i, "catch")
          /\ UNCHANGED response
    /\ UNCHANGED <<scriptVars, notifierVars, env, now, event, config, artifacts, updateResult,
                   deploymentResult, error, raised>>

PutJobFailureResultDone(i) ==
    /\ pc[i] = "putJobFailureResult"
    /\ pending[i] # 0
    /\ \/ /\ Settle(i, "ok")
          /\ Rethrow(i, error[i])
          /\ UNCHANGED <<error, raised>>
       \/ \E fault \in FaultMessages :
              /\ Settle(i, "failed")
              /\ error' = [error EXCEPT ![i] = fault]
              /\ raised' = [raised EXCEPT ![i] = Append(@, fault)]
              /\ Rethrow(i, fault)
    /\ UNCHANGED <<scriptVars, notifierVars, env, now, event, config, artifacts, updateResult, deploymentResult>>

-----------------------------------------------------------------------------
(* One invocation of the handler on one event *)

Init ==
    /\ env \in Environments
    /\ now = 0
    /\ event \in [Handlers -> Events]
    /\ pc = [i \in Handlers |-> "start"]
    /\ pending = [i \in Handlers |-> 0]
    /\ idx = [i \in Handlers |-> 1]
    /\ config = [i \in Handlers |-> EmptyObject]
    /\ artifacts = [i \in Handlers |-> EmptyObject]
    /\ updateResult = [i \in Handlers |-> EmptyObject]
    /\ deploymentResult = [i \in Handlers |-> NoResult]
    /\ error = [i \in Handlers |-> <<>>]
    /\ raised = [i \in Handlers |-> <<>>]
    /\ calls = <<>>
    /\ response = [i \in Handlers |-> NoResponse]
    /\ pipelineExecution = [i \in Handlers |-> Undefined]
    /\ slackMessage = [i \in Handlers |-> Undefined]
    /\ locals = [i \in Handlers |-> EmptyObject]
    /\ files = {}

Next ==
    \E i \in Handlers :
        \/ Extract(i)
        \/ GetDeploymentConfig(i)
        \/ GetObject(i)
        \/ GetObjectDone(i)
        \/ ProcessArtifactsReturn(i)
        \/ ExecuteDeployment(i)
        \/ DeployToLambda(i)
        \/ UpdateFunctionCodeDone(i)
        \/ WaitFor(i)
        \/ WaitForDone(i)
        \/ UpdateFunctionConfiguration(i)
        \/ UpdateFunctionConfigurationDone(i)
        \/ DeployToECS(i)
        \/ UpdateServiceDone(i)
        \/ DeployToS3(i)
        \/ UploadDone(i)
        \/ PutObject(i)
        \/ PutObjectDone(i)
        \/ UpdateOutputArtifactsReturn(i)
        \/ PutJobSuccessResult(i)
        \/ PutJobSuccessResultDone(i)
        \/ Return(i)
        \/ Catch(i)
        \/ PutJobFailureResultDone(i)

\* The steps of invocation i.
Step(i) == Next /\ (pc'[i] # pc[i] \/ pending'[i] # pending[i] \/ idx'[i] # idx[i])

Spec == Init /\ [][Next]_vars

\* Every SDK call settles and the runtime keeps running the invocation.
FairSpec == Spec /\ \A i \in Handlers : WF_vars(Step(i))

-----------------------------------------------------------------------------
(* Observations on a state, used by the properties below *)

ReportOps == {"putJobSuccessResult", "putJobFailureResult"}

BackendOps ==
    {"updateFunctionCode", "waitFor", "updateFunctionConfiguration", "updateService", "upload"}

\* The calls of the stages that precede the report.
StageOps == {"getObject", "putObject"} \cup BackendOps

SupportedTypes == {"lambda", "ecs", "s3"}

\* Indexes in calls of the calls of invocation i to one of ops.
CallsOf(i, ops) == {k \in DOMAIN calls : calls[k].inv = i /\ calls[k].op \in ops}

Finished(i) == pc[i] = "done"

ReceivedJob(i) == event[i].hasJob

\* The deployment type that config resolution yields for the job of invocation i.
ResolvedType(i) == ResolveConfig(env, event[i].configuration).deploymentType

\* Input artifact n of invocation i was downloaded by a call issued before call k.
FetchedBefore(i, n, k) ==
    \E j \in CallsOf(i, {"getObject"}) :
        /\ j < k
        /\ calls[j].status = "ok"
        /\ calls[j].params.Key = event[i].inputArtifacts[n].location.s3Location.objectKey

\* The summary of output artifact n of invocation i was written by a call issued before call k.
WrittenBefore(i, n, k) ==
    \E j \in CallsOf(i, {"putObject"}) :
        /\ j < k
        /\ calls[j].status = "ok"
        /\ calls[j].params.Key = event[i].outputArtifacts[n].location.s3Location.objectKey

-----------------------------------------------------------------------------
(* C1: when the handler has finished a job event, the number of report calls
   attempted for the job (success plus failure) is exactly 1.  The code breaks
   this when putJobSuccessResult rejects: the catch clause then also calls
   putJobFailureResult. *)
C1_ExactlyOneReportAttempt ==
    \A i \in DOMAIN pc :
        (Finished(i) /\ ReceivedJob(i)) => Cardinality(CallsOf(i, ReportOps)) = 1

(* C2: when the success report call itself fails, no failure report is
   attempted for the job.  The code breaks this: the rejected
   putJobSuccessResult is caught by the handler's own catch clause. *)
C2_NoFailureReportAfterFailedSuccessReport ==
    \A i \in DOMAIN pc :
        (\E k \in CallsOf(i, {"putJobSuccessResult"}) : calls[k].status = "failed")
            => CallsOf(i, {"putJobFailureResult"}) = {}

(* C3: a failed report call is never retried: each of putJobSuccessResult and
   putJobFailureResult is attempted at most once per job, and an invocation in
   which a report call rejected ends rejected, never resolved. *)
C3_ReportNeverRetried ==
    \A i \in DOMAIN pc :
        /\ Cardinality(CallsOf(i, {"putJobSuccessResult"})) <= 1
        /\ Cardinality(CallsOf(i, {"putJobFailureResult"})) <= 1
        /\ (Finished(i) /\ \E k \in CallsOf(i, ReportOps) : calls[k].status = "failed")
               => response[i].kind = "rejected"

C3_Witness ==
    \E i \in DOMAIN pc :
        /\ Finished(i)
        /\ \E k \in CallsOf(i, {"putJobFailureResult"}) : calls[k].status = "failed"
        /\ response[i].kind = "rejected"

(* C4: no job is left unreported: when every SDK call settles, an invocation
   that received a job eventually attempts a report call, and it never
   finishes without having attempted one. *)
C4_EveryJobReported ==
    /\ \A i \in Handlers :
           (ReceivedJob(i) /\ pc[i] = "start") ~> (CallsOf(i, ReportOps) # {})
    /\ [](\A i \in Handlers :
           (ReceivedJob(i) /\ Finished(i)) => CallsOf(i, ReportOps) # {})

C4_Witness ==
    \E i \in DOMAIN pc :
        /\ ReceivedJob(i)
        /\ Finished(i)
        /\ CallsOf(i, {"getObject"}) # {}
        /\ CallsOf(i, {"putJobFailureResult"}) # {}

(* C5: whenever a success report is attempted, every earlier stage of the job
   completed successfully: the config is resolved, every input artifact was
   downloaded, the selected backend returned its result, every declared output
   summary was written, and no call of the job failed. *)
C5_SuccessOnlyAfterEveryStage ==
    \A i \in DOMAIN pc :
        \A k \in CallsOf(i, {"putJobSuccessResult"}) :
            /\ config[i] = ResolveConfig(env, event[i].configuration)
            /\ \A n \in DOMAIN event[i].inputArtifacts : FetchedBefore(i, n, k)
            /\ deploymentResult[i] # NoResult
            /\ deploymentResult[i].type = config[i].deploymentType
            /\ CallsOf(i, BackendOps) # {}
            /\ \A n \in DOMAIN event[i].outputArtifacts : WrittenBefore(i, n, k)
            /\ \A j \in CallsOf(i, StageOps) : calls[j].status = "ok"

C5_Witness ==
    \E i \in DOMAIN pc :
        /\ CallsOf(i, {"putJobSuccessResult"}) # {}
        /\ Len(event[i].inputArtifacts) >= 1
        /\ Len(event[i].outputArtifacts) >= 1

\* The job of invocation i failed in one of the stages that precede the report,
\* and the catch clause has acted on it.
FailedBeforeReport(i) ==
    /\ ReceivedJob(i)
    /\ raised[i] # <<>>
    /\ CallsOf(i, {"putJobSuccessResult"}) = {}
    /\ pc[i] \in {"putJobFailureResult", "done"}

\* Exactly one failure report was attempted for the job, and it carries message.
OneFailureReportWith(i, message) ==
    /\ Cardinality(CallsOf(i, {"putJobFailureResult"})) = 1
    /\ \A k \in CallsOf(i, {"putJobFailureResult"}) :
           /\ calls[k].params.jobId = event[i].id
           /\ calls[k].params.failureDetails.type = "JobFailed"
           /\ calls[k].params.failureDetails.message = message

(* C6 as stated: an error in config resolution, artifact resolution, dispatch
   or output writing yields exactly one putJobFailureResult call for the job's
   id, of type 'JobFailed', whose message is the message of the first error
   encountered; no success report is attempted. *)
C6_FailureMessageIsFirstError ==
    \A i \in DOMAIN pc :
        FailedBeforeReport(i) => OneFailureReportWith(i, raised[i][1])

\* The first error of the job arose inside the try block of a backend.
FirstErrorInBackendTry(i) ==
    \/ \E k \in CallsOf(i, BackendOps) : calls[k].status = "failed"
    \/ /\ config[i] # EmptyObject
       /\ config[i].deploymentType = "s3"
       /\ raised[i][1] = <<"No application artifact found for S3 deployment">>

BackendPrefix(type) ==
    CASE type = "lambda" -> "Lambda deployment failed: "
      [] type = "ecs" -> "ECS deployment failed: "
      [] type = "s3" -> "S3 deployment failed: "

(* C6 as amended: the failure report's message is the message of the first
   error encountered, prefixed with '<Lambda|ECS|S3> deployment failed: ' when
   that error arose inside a backend's try block (a failed backend call, or the
   S3 backend's missing-artifact check); the rest as stated. *)
C6_FailureMessageIsBoundaryError ==
    \A i \in DOMAIN pc :
        FailedBeforeReport(i) =>
            OneFailureReportWith(i,
                IF FirstErrorInBackendTry(i)
                    THEN <<BackendPrefix(config[i].deploymentType)>> \o raised[i][1]
                    ELSE raised[i][1])

C6_Witness ==
    \E i \in DOMAIN pc :
        /\ FailedBeforeReport(i)
        /\ FirstErrorInBackendTry(i)
        /\ \E k \in CallsOf(i, {"putJobFailureResult"}) :
               calls[k].params.failureDetails.message
                   = <<"Lambda deployment failed: ">> \o raised[i][1]

(* C7: no backend call is issued before config resolution and every
   input-artifact download of the job have completed successfully, and no
   download follows a backend call. *)
C7_BackendCallsAfterConfigAndArtifacts ==
    \A i \in DOMAIN pc :
        \A k \in CallsOf(i, BackendOps) :
            /\ config[i] = ResolveConfig(env, event[i].configuration)
            /\ \A n \in DOMAIN event[i].inputArtifacts : FetchedBefore(i, n, k)
            /\ \A j \in CallsOf(i, {"getObject"}) : j < k

C7_Witness ==
    \E i \in DOMAIN pc :
        /\ CallsOf(i, BackendOps) # {}
        /\ Len(event[i].inputArtifacts) >= 2

(* C8: the report call is the last external call of a job: every download,
   backend call and summary write of the job was issued before the report call
   and has settled. *)
C8_ReportIsLastCall ==
    \A i \in DOMAIN pc :
        \A k \in CallsOf(i, ReportOps) :
            \A j \in CallsOf(i, StageOps) :
                j < k /\ calls[j].status # "pending"

C8_Witness ==
    \E i \in DOMAIN pc :
        /\ CallsOf(i, {"putJobSuccessResult"}) # {}
        /\ CallsOf(i, {"putObject"}) # {}
        /\ CallsOf(i, {"getObject"}) # {}

(* C9: a job whose resolved deployment type is outside the closed backend set
   fails before any artifact download is attempted.  The code breaks this:
   getDeploymentConfig validates nothing, the type is first looked at by
   executeDeployment, after processArtifacts. *)
C9_NoFetchForUnsupportedType ==
    \A i \in DOMAIN pc :
        (ReceivedJob(i) /\ ResolvedType(i) \notin SupportedTypes)
            => CallsOf(i, {"getObject"}) = {}

(* C10: a job whose resolved deployment type is not one of the three supported
   kinds never issues a backend call and ends with exactly one failure report
   and no success report. *)
C10_UnsupportedTypeFailsWithoutBackendCall ==
    \A i \in DOMAIN pc :
        (ReceivedJob(i) /\ ResolvedType(i) \notin SupportedTypes) =>
            /\ CallsOf(i, BackendOps) = {}
            /\ CallsOf(i, {"putJobSuccessResult"}) = {}
            /\ Finished(i) => Cardinality(CallsOf(i, {"putJobFailureResult"})) = 1

C10_Witness ==
    \E i \in DOMAIN pc :
        /\ ReceivedJob(i)
        /\ ResolvedType(i) \notin SupportedTypes
        /\ Finished(i)
        /\ raised[i][1] = <<"Unsupported deployment type: ", ResolvedType(i)>>
        /\ Cardinality(CallsOf(i, {"putJobFailureResult"})) = 1

-----------------------------------------------------------------------------
(* Config resolution on its own: the handler is run up to the end of
   getDeploymentConfig, over a wider range of environments and job
   configurations than the end-to-end runs above. *)

\* process.env: each variable unset, set to the empty string, or set to a value.
ConfigEnvironments ==
    [DEPLOYMENT_TYPE : {Unset, "", "ecs"},
     TARGET_FUNCTION_NAME : {Unset, "fn-env"},
     ENVIRONMENT : {Unset, "production"},
     AWS_REGION : {Unset, "eu-west-1"}]

\* The values a job may give to a key of its configuration.
ConfigurationValues ==
    [deploymentType |-> {"s3", ""},
     targetFunction |-> {"fn-1"},
     environment    |-> {"staging"},
     region         |-> {"ap-south-1"},
     bucketName     |-> {"site-bucket"},
     customTag      |-> {"blue"}]

ConfigConfigurations ==
    UNION { {c \in [keys -> UNION {ConfigurationValues[k] : k \in keys}] :
                \A k \in keys : c[k] \in ConfigurationValues[k]}
            : keys \in SUBSET DOMAIN ConfigurationValues }

ConfigEvents ==
    [hasJob : {TRUE}, id : JobIds, inputArtifacts : {<<>>},
     outputArtifacts : {<<>>}, configuration : ConfigConfigurations]

ConfigInit ==
    /\ env \in ConfigEnvironments
    /\ now = 0
    /\ event \in [Handlers -> ConfigEvents]
    /\ pc = [i \in Handlers |-> "start"]
    /\ pending = [i \in Handlers |-> 0]
    /\ idx = [i \in Handlers |-> 1]
    /\ config = [i \in Handlers |-> EmptyObject]
    /\ artifacts = [i \in Handlers |-> EmptyObject]
    /\ updateResult = [i \in Handlers |-> EmptyObject]
    /\ deploymentResult = [i \in Handlers |-> NoResult]
    /\ error = [i \in Handlers |-> <<>>]
    /\ raised = [i \in Handlers |-> <<>>]
    /\ calls = <<>>
    /\ response = [i \in Handlers |-> NoResponse]
    /\ pipelineExecution = [i \in Handlers |-> Undefined]
    /\ slackMessage = [i \in Handlers |-> Undefined]
    /\ locals = [i \in Handlers |-> EmptyObject]
    /\ files = {}

ConfigNext ==
    \E i \in Handlers :
        \/ Extract(i)
        \/ GetDeploymentConfig(i)

ConfigSpec == ConfigInit /\ [][ConfigNext]_vars

\* The environment variable behind each recognized key, and its built-in default.
EnvironmentVariable ==
    [deploymentType |-> "DEPLOYMENT_TYPE", targetFunction |-> "TARGET_FUNCTION_NAME",
     environment |-> "ENVIRONMENT", region |-> "AWS_REGION"]

BuiltInDefault ==
    [deploymentType |-> "lambda", targetFunction |-> "lambdadeploy-app",
     environment |-> "development", region |-> "us-east-1"]

\* getDeploymentConfig has returned in invocation i.
ConfigResolved(i) == ReceivedJob(i) /\ pc[i] \notin {"start", "getDeploymentConfig"}

\* The keys a resolved value is asked about.
AllConfigKeys == DOMAIN ConfigurationValues \cup DOMAIN BuiltInDefault \cup {"serviceName", "clusterName"}

\* Key k of the resolved config of invocation i comes from the three layers,
\* where an environment variable counts as given unless its value is in absent.
OverlaidKey(i, k, absent) ==
    LET configuration == event[i].configuration
    IN  IF k \in DOMAIN configuration
            THEN k \in DOMAIN config[i] /\ config[i][k] = configuration[k]
        ELSE IF k \in DOMAIN EnvironmentVariable
            THEN /\ k \in DOMAIN config[i]
                 /\ config[i][k] = IF env[EnvironmentVariable[k]] \notin absent
                                       THEN env[EnvironmentVariable[k]]
                                       ELSE BuiltInDefault[k]
        ELSE k \notin DOMAIN config[i]

NotSet == {Unset}

NotSetOrEmpty == {Unset, ""}

(* C11 as stated: for every key the resolved value is the actionConfiguration
   value if the key is present there, otherwise the environment value if set,
   otherwise the built-in default. *)
C11_OverlayWithEnvironmentIfSet ==
    \A i \in DOMAIN pc :
        ConfigResolved(i) => \A k \in AllConfigKeys : OverlaidKey(i, k, NotSet)

(* C11 as amended: the environment value is used only if it is set to a
   non-empty string; an environment variable set to the empty string yields the
   built-in default (process.env.X || default).  The rest as stated. *)
C11_OverlayWithEnvironmentIfNotEmpty ==
    \A i \in DOMAIN pc :
        ConfigResolved(i) => \A k \in AllConfigKeys : OverlaidKey(i, k, NotSetOrEmpty)

C11_Witness ==
    \E i \in DOMAIN pc :
        /\ ConfigResolved(i)
        /\ "deploymentType" \in DOMAIN event[i].configuration
        /\ env.DEPLOYMENT_TYPE = "ecs"
        /\ config[i].deploymentType = "s3"
        /\ "targetFunction" \notin DOMAIN event[i].configuration
        /\ config[i].targetFunction = "fn-env"
        /\ env.ENVIRONMENT = Unset
        /\ config[i].environment = "development"

(* C12: every key/value of the job's actionConfiguration appears unchanged in
   the resolved config, the keys that are not recognized config keys included. *)
C12_ConfigurationPassesThrough ==
    \A i \in DOMAIN pc :
        ConfigResolved(i) =>
            \A k \in DOMAIN event[i].configuration :
                k \in DOMAIN config[i] /\ config[i][k] = event[i].configuration[k]

C12_Witness ==
    \E i \in DOMAIN pc :
        /\ ConfigResolved(i)
        /\ "customTag" \in DOMAIN event[i].configuration
        /\ "customTag" \notin DOMAIN BuiltInDefault
        /\ config[i].customTag = "blue"

-----------------------------------------------------------------------------
(* Artifact resolution and the backends *)

\* The statements at which the dispatcher or a backend is running.
DispatchLabels ==
    {"executeDeployment", "deployToLambda", "updateFunctionCode", "waitFor",
     "updateFunctionConfiguration", "deployToECS", "updateService", "deployToS3", "upload"}

FailedCalls(i, ops) == {k \in CallsOf(i, ops) : calls[k].status = "failed"}

\* Invocation i ended having attempted one failure report and no success report.
EndsWithFailureReportOnly(i) ==
    /\ CallsOf(i, {"putJobSuccessResult"}) = {}
    /\ Finished(i) => Cardinality(CallsOf(i, {"putJobFailureResult"})) = 1
    /\ Finished(i) => response[i].kind = "rejected"

(* C13: artifact resolution is all-or-nothing: once the download of an input
   artifact has failed, the dispatcher is never entered (no partial artifact
   map reaches it), no backend call is made, and the job ends with a failure
   report. *)
C13_ArtifactResolutionAllOrNothing ==
    \A i \in DOMAIN pc :
        FailedCalls(i, {"getObject"}) # {} =>
            /\ pc[i] \in {"catch", "putJobFailureResult", "done"}
            /\ pc[i] \notin DispatchLabels
            /\ deploymentResult[i] = NoResult
            /\ CallsOf(i, BackendOps) = {}
            /\ EndsWithFailureReportOnly(i)

C13_Witness ==
    \E i \in DOMAIN pc :
        /\ FailedCalls(i, {"getObject"}) # {}
        /\ DOMAIN artifacts[i] # {}
        /\ Finished(i)
        /\ Cardinality(CallsOf(i, {"putJobFailureResult"})) = 1

(* C14: no retry inside a job: each input artifact reference is downloaded at
   most once and each backend call is attempted at most once, whether it
   succeeds or fails. *)
C14_NoRetry ==
    \A i \in DOMAIN pc :
        /\ \A n \in DOMAIN event[i].inputArtifacts :
               Cardinality({k \in CallsOf(i, {"getObject"}) :
                   calls[k].params.Key
                       = event[i].inputArtifacts[n].location.s3Location.objectKey}) <= 1
        /\ Cardinality(CallsOf(i, {"getObject"})) <= Len(event[i].inputArtifacts)
        /\ \A op \in BackendOps : Cardinality(CallsOf(i, {op})) <= 1

C14_Witness ==
    \E i \in DOMAIN pc :
        /\ Finished(i)
        /\ FailedCalls(i, {"getObject"}) \cup FailedCalls(i, BackendOps) # {}
        /\ Len(event[i].inputArtifacts) >= 2

\* The job of invocation i names neither 'BuildArtifact' nor 'SourceOutput'.
NamesNoAppArtifact(i) ==
    \A n \in DOMAIN event[i].inputArtifacts :
        event[i].inputArtifacts[n].name \notin {"BuildArtifact", "SourceOutput"}

(* C15: a function-update or static-artifact job whose artifact set contains
   neither 'BuildArtifact' nor 'SourceOutput' issues no code-update and no
   upload call, and ends with exactly one failure report and no success
   report. *)
C15_MissingArtifactFailsWithoutBackendCall ==
    \A i \in DOMAIN pc :
        (ReceivedJob(i) /\ ResolvedType(i) \in {"lambda", "s3"} /\ NamesNoAppArtifact(i)) =>
            /\ CallsOf(i, BackendOps) = {}
            /\ deploymentResult[i] = NoResult
            /\ EndsWithFailureReportOnly(i)

C15_Witness ==
    \E i \in DOMAIN pc :
        /\ ReceivedJob(i)
        /\ NamesNoAppArtifact(i)
        /\ Len(event[i].inputArtifacts) >= 1
        /\ Finished(i)
        /\ raised[i] # <<>>
        /\ raised[i][1] = <<"No application artifact found for Lambda deployment">>
        /\ Cardinality(CallsOf(i, {"putJobFailureResult"})) = 1

\* text occurs in message (both are sequences of text pieces).
ContainsText(message, text) ==
    \E a \in 0..(Len(message) - Len(text)) : SubSeq(message, a + 1, a + Len(text)) = text

\* After a failed code update: no wait and no configuration update, and one
\* failure report whose message contains the text of the underlying fault.
CodeUpdateFailureReported(i) ==
    /\ CallsOf(i, {"waitFor", "updateFunctionConfiguration"}) = {}
    /\ CallsOf(i, {"putJobSuccessResult"}) = {}
    /\ pc[i] \in {"putJobFailureResult", "done"} =>
           /\ Cardinality(CallsOf(i, {"putJobFailureResult"})) = 1
           /\ \A k \in CallsOf(i, {"putJobFailureResult"}) :
                  ContainsText(calls[k].params.failureDetails.message, raised[i][1])

(* C16 as stated: if the code-update call fails, no wait-for-updated and no
   configuration-update call is made, the job ends with a failure report whose
   message contains the underlying fault text, and the invocation rejects with
   an error whose message contains 'Lambda deployment failed'. *)
C16_CodeUpdateFailureRejectsWithBackendError ==
    \A i \in DOMAIN pc :
        FailedCalls(i, {"updateFunctionCode"}) # {} =>
            /\ CodeUpdateFailureReported(i)
            /\ Finished(i) =>
                   /\ response[i].kind = "rejected"
                   /\ ContainsText(response[i].message, <<"Lambda deployment failed: ">>)

(* C16 as amended: the invocation rejects with the 'Lambda deployment failed'
   error when the failure report call succeeds; when the failure report call
   itself rejects, the invocation rejects with that reporting error instead.
   The rest as stated. *)
C16_CodeUpdateFailureRejects ==
    \A i \in DOMAIN pc :
        FailedCalls(i, {"updateFunctionCode"}) # {} =>
            /\ CodeUpdateFailureReported(i)
            /\ Finished(i) =>
                   /\ response[i].kind = "rejected"
                   /\ IF FailedCalls(i, {"putJobFailureResult"}) = {}
                         THEN /\ ContainsText(response[i].message, <<"Lambda deployment failed: ">>)
                              /\ ContainsText(response[i].message, raised[i][1])
                         ELSE /\ response[i].message = raised[i][Len(raised[i])]
                              /\ response[i].message \in FaultMessages

C16_Witness ==
    \E i \in DOMAIN pc :
        /\ FailedCalls(i, {"updateFunctionCode"}) # {}
        /\ Finished(i)
        /\ FailedCalls(i, {"putJobFailureResult"}) = {}
        /\ response[i].message = <<"Lambda deployment failed: ">> \o raised[i][1]

(* C17: the secondary configuration update is best-effort: when the code
   update and the wait succeed but the configuration-update call fails, the
   backend still returns the code-update result and the job is reported as
   success, not failure.  The code breaks this: the configuration update is
   inside the same try block, so its failure fails the backend and the job. *)
C17_ConfigurationUpdateIsBestEffort ==
    \A i \in DOMAIN pc :
        FailedCalls(i, {"updateFunctionConfiguration"}) # {} =>
            /\ deploymentResult[i] = LambdaResult(updateResult[i])
            /\ CallsOf(i, {"putJobFailureResult"}) = {}
            /\ Finished(i) => CallsOf(i, {"putJobSuccessResult"}) # {}

(* C18: if the wait-for-updated step fails or times out, the backend fails, no
   configuration-update call is made afterwards, and the job ends with exactly
   one failure report and no success report. *)
C18_WaitFailureFailsJob ==
    \A i \in DOMAIN pc :
        FailedCalls(i, {"waitFor"}) # {} =>
            /\ CallsOf(i, {"updateFunctionConfiguration"}) = {}
            /\ deploymentResult[i] = NoResult
            /\ pc[i] \in {"catch", "putJobFailureResult", "done"}
            /\ EndsWithFailureReportOnly(i)

C18_Witness ==
    \E i \in DOMAIN pc :
        /\ FailedCalls(i, {"waitFor"}) # {}
        /\ config[i].environment # "production"
        /\ Finished(i)
        /\ Cardinality(CallsOf(i, {"putJobFailureResult"})) = 1

-----------------------------------------------------------------------------
(* Two invocations of the handler running at once in one process: their steps
   interleave at the suspension points, over the same clock. *)

ConcHandlers == {"invocation-1", "invocation-2"}

ConcJobId == [i \in ConcHandlers |-> IF i = "invocation-1" THEN "job-1" ELSE "job-2"]

BuildArtifactRef == CHOOSE r \in InputRefs : r.name = "BuildArtifact"

SourceOutputRef == CHOOSE r \in InputRefs : r.name = "SourceOutput"

\* The jobs the first invocation may receive: one per backend.
ConcJobs ==
    { [inputArtifacts |-> <<BuildArtifactRef>>, outputArtifacts |-> SubSeq(OutputPool, 1, 1),
       configuration |-> [deploymentType |-> "s3", bucketName |-> "site-bucket"]],
      [inputArtifacts |-> <<SourceOutputRef>>, outputArtifacts |-> <<>>,
       configuration |-> [deploymentType |-> "lambda", targetFunction |-> "fn-1"]],
      [inputArtifacts |-> <<>>, outputArtifacts |-> <<>>,
       configuration |-> [deploymentType |-> "ecs", serviceName |-> "web", clusterName |-> "main"]] }

\* The job of the second invocation: an S3 deployment of the build artifact.
ConcS3Job ==
    [inputArtifacts |-> <<BuildArtifactRef>>, outputArtifacts |-> <<>>,
     configuration |-> [deploymentType |-> "s3", bucketName |-> "site-bucket"]]

ConcEvents(i) ==
    { [hasJob |-> TRUE, id |-> ConcJobId[i], inputArtifacts |-> j.inputArtifacts,
       outputArtifacts |-> j.outputArtifacts, configuration |-> j.configuration] :
         j \in IF i = "invocation-1" THEN ConcJobs ELSE {ConcS3Job} }

ConcInit ==
    /\ env = [DEPLOYMENT_TYPE |-> Unset, TARGET_FUNCTION_NAME |-> Unset,
              ENVIRONMENT |-> Unset, AWS_REGION |-> "eu-west-1"]
    /\ now = 0
    /\ event \in {e \in [ConcHandlers -> UNION {ConcEvents(i) : i \in ConcHandlers}] :
                     \A i \in ConcHandlers : e[i] \in ConcEvents(i)}
    /\ pc = [i \in ConcHandlers |-> "start"]
    /\ pending = [i \in ConcHandlers |-> 0]
    /\ idx = [i \in ConcHandlers |-> 1]
    /\ config = [i \in ConcHandlers |-> EmptyObject]
    /\ artifacts = [i \in ConcHandlers |-> EmptyObject]
    /\ updateResult = [i \in ConcHandlers |-> EmptyObject]
    /\ deploymentResult = [i \in ConcHandlers |-> NoResult]
    /\ error = [i \in ConcHandlers |-> <<>>]
    /\ raised = [i \in ConcHandlers |-> <<>>]
    /\ calls = <<>>
    /\ response = [i \in ConcHandlers |-> NoResponse]
    /\ pipelineExecution = [i \in ConcHandlers |-> Undefined]
    /\ slackMessage = [i \in ConcHandlers |-> Undefined]
    /\ locals = [i \in ConcHandlers |-> EmptyObject]
    /\ files = {}

ConcNext ==
    \E i \in ConcHandlers :
        \/ Extract(i)
        \/ GetDeploymentConfig(i)
        \/ GetObject(i)
        \/ GetObjectDone(i)
        \/ ProcessArtifactsReturn(i)
        \/ ExecuteDeployment(i)
        \/ DeployToLambda(i)
        \/ UpdateFunctionCodeDone(i)
        \/ WaitFor(i)
        \/ WaitForDone(i)
        \/ UpdateFunctionConfiguration(i)
        \/ UpdateFunctionConfigurationDone(i)
        \/ DeployToECS(i)
        \/ UpdateServiceDone(i)
        \/ DeployToS3(i)
        \/ UploadDone(i)
        \/ PutObject(i)
        \/ PutObjectDone(i)
        \/ UpdateOutputArtifactsReturn(i)
        \/ PutJobSuccessResult(i)
        \/ PutJobSuccessResultDone(i)
        \/ Return(i)
        \/ Catch(i)
        \/ PutJobFailureResultDone(i)

ConcSpec == ConcInit /\ [][ConcNext]_vars

\* The upload calls of the static-artifact backend, by position in the log.
Uploads == {j \in 1..Len(calls) : calls[j].op = "upload"}

(* C19: any two jobs dispatched to the static-artifact backend within one
   process lifetime, also two dispatched within the same clock tick, write
   their payloads under distinct storage keys, so no prior artifact is
   overwritten. *)
C19_StorageKeyUniquePerInvocation ==
    \A j, k \in Uploads :
        j # k => calls[j].params.Key # calls[k].params.Key

(* C20: when the write of the summary to a declared output artifact fails,
   the job is reported as failed, with exactly one failure report and no
   success report, although the backend dispatch had succeeded. *)
C20_OutputWriteFailureFailsJob ==
    \A i \in DOMAIN pc :
        FailedCalls(i, {"putObject"}) # {} =>
            /\ deploymentResult[i] # NoResult
            /\ \A j \in CallsOf(i, BackendOps) : calls[j].status = "ok"
            /\ pc[i] \in {"catch", "putJobFailureResult", "done"}
            /\ EndsWithFailureReportOnly(i)

C20_Witness ==
    \E i \in DOMAIN pc :
        /\ FailedCalls(i, {"putObject"}) # {}
        /\ CallsOf(i, BackendOps) # {}
        /\ Finished(i)
        /\ Cardinality(CallsOf(i, {"putJobFailureResult"})) = 1
        /\ CallsOf(i, {"putJobSuccessResult"}) = {}

-----------------------------------------------------------------------------
\* Call j wrote the summary of invocation i to the location of its output artifact n.
SummaryWrite(i, n, j) ==
    LET location == event[i].outputArtifacts[n].location.s3Location
    IN  /\ calls[j].params.Bucket = location.bucketName
        /\ calls[j].params.Key = location.objectKey
        /\ calls[j].params.Body.deploymentResult = deploymentResult[i]
        /\ calls[j].params.Body.status = "SUCCESS"
        /\ calls[j].params.ContentType = "application/json"

(* C21: on the success path a summary carrying the DeploymentResult and the
   status 'SUCCESS' is written to the location of every declared output
   artifact, and each of these writes has completed before the success report
   call is issued. *)
C21_SummariesWrittenBeforeSuccessReport ==
    \A i \in DOMAIN pc :
        \A k \in CallsOf(i, {"putJobSuccessResult"}) :
            /\ \A n \in 1..Len(event[i].outputArtifacts) :
                   \E j \in CallsOf(i, {"putObject"}) :
                       j < k /\ calls[j].status = "ok" /\ SummaryWrite(i, n, j)
            /\ \A j \in CallsOf(i, {"putObject"}) : j < k /\ calls[j].status = "ok"
            /\ Cardinality(CallsOf(i, {"putObject"})) = Len(event[i].outputArtifacts)

C21_Witness ==
    \E i \in DOMAIN pc :
        /\ Len(event[i].outputArtifacts) = MaxOutputs
        /\ Cardinality(CallsOf(i, {"putObject"})) = MaxOutputs
        /\ \E k \in CallsOf(i, {"putJobSuccessResult"}) : calls[k].status = "ok"
        /\ Finished(i)
        /\ response[i].kind = "resolved"

-----------------------------------------------------------------------------
\* Every SDK call that invocation i has issued has succeeded.
AllCallsSucceeded(i) == \A k \in CallsOf(i, StageOps \cup ReportOps) : calls[k].status = "ok"

\* The one call of invocation i to operation op, when there is exactly one.
TheCall(i, op) == CHOOSE k \in CallsOf(i, {op}) : TRUE

(* C22: end-to-end success of a function-update job whose one input artifact
   is 'BuildArtifact': when every call succeeds, the finished invocation has
   made exactly one artifact fetch, then exactly one code-update call carrying
   the fetched payload, then exactly one wait-for-updated call, then one
   success report with deploymentStatus 'SUCCESS', and no failure report; it
   returns statusCode 200 with message 'Deployment orchestrated successfully'. *)
C22_FunctionUpdateEndToEnd ==
    \A i \in DOMAIN pc :
        ( /\ ReceivedJob(i)
          /\ ResolvedType(i) = "lambda"
          /\ event[i].inputArtifacts = <<BuildArtifactRef>>
          /\ Finished(i)
          /\ AllCallsSucceeded(i) ) =>
            /\ \A op \in {"getObject", "updateFunctionCode", "waitFor", "putJobSuccessResult"} :
                   Cardinality(CallsOf(i, {op})) = 1
            /\ calls[TheCall(i, "getObject")].params
                   = [Bucket |-> BuildArtifactRef.location.s3Location.bucketName,
                      Key |-> BuildArtifactRef.location.s3Location.objectKey]
            /\ calls[TheCall(i, "updateFunctionCode")].params.ZipFile
                   = S3Object(BuildArtifactRef.location.s3Location.bucketName,
                              BuildArtifactRef.location.s3Location.objectKey).Body
            /\ TheCall(i, "getObject") < TheCall(i, "updateFunctionCode")
            /\ TheCall(i, "updateFunctionCode") < TheCall(i, "waitFor")
            /\ TheCall(i, "waitFor") < TheCall(i, "putJobSuccessResult")
            /\ calls[TheCall(i, "putJobSuccessResult")].params.outputVariables.deploymentStatus = "SUCCESS"
            /\ CallsOf(i, {"putJobFailureResult"}) = {}
            /\ response[i].kind = "resolved"
            /\ response[i].statusCode = 200
            /\ response[i].body.message = "Deployment orchestrated successfully"

C22_Witness ==
    \E i \in DOMAIN pc :
        /\ ReceivedJob(i)
        /\ event[i].configuration = EmptyObject
        /\ ResolvedType(i) = "lambda"
        /\ event[i].inputArtifacts = <<BuildArtifactRef>>
        /\ event[i].outputArtifacts = <<>>
        /\ Finished(i)
        /\ AllCallsSucceeded(i)
        /\ response[i].kind = "resolved"

-----------------------------------------------------------------------------
\* The output variables of the success report call k.
OutputVariables(k) == calls[k].params.outputVariables

(* C23 as stated: the output variables of the success report are drawn from
   the DeploymentResult of the backend that ran: deploymentStatus is 'SUCCESS'
   and deployedVersion equals the version carried by the DeploymentResult, for
   each of the three backend kinds. *)
C23_DeployedVersionFromResult ==
    \A i \in DOMAIN pc :
        \A k \in CallsOf(i, {"putJobSuccessResult"}) :
            /\ OutputVariables(k).deploymentStatus = "SUCCESS"
            /\ "version" \in DOMAIN deploymentResult[i]
            /\ OutputVariables(k).deployedVersion = deploymentResult[i].version

(* C23 as amended: deploymentStatus is 'SUCCESS'; deployedVersion is the
   version returned by the code update when the function-update backend ran,
   and the text 'unknown' when the container-service or the static-artifact
   backend ran, whose DeploymentResult carries no version. *)
C23_DeployedVersionOrUnknown ==
    \A i \in DOMAIN pc :
        \A k \in CallsOf(i, {"putJobSuccessResult"}) :
            /\ OutputVariables(k).deploymentStatus = "SUCCESS"
            /\ deploymentResult[i].type = ResolvedType(i)
            /\ deploymentResult[i].type \in SupportedTypes
            /\ deploymentResult[i].type = "lambda" =>
                   /\ Get(deploymentResult[i], "version") = updateResult[i].Version
                   /\ OutputVariables(k).deployedVersion = updateResult[i].Version
            /\ deploymentResult[i].type \in {"ecs", "s3"} =>
                   /\ "version" \notin DOMAIN deploymentResult[i]
                   /\ OutputVariables(k).deployedVersion = "unknown"

C23_Witness ==
    \E i \in DOMAIN pc :
        /\ Finished(i)
        /\ response[i].kind = "resolved"
        /\ deploymentResult[i].type = "ecs"
        /\ \E k \in CallsOf(i, {"putJobSuccessResult"}) :
               OutputVariables(k).deployedVersion = "unknown"

-----------------------------------------------------------------------------
\* The report calls of invocation i carry its own job id, and no other
\* invocation reports that job.
ReportsOwnJobOnly(i) ==
    /\ \A k \in CallsOf(i, ReportOps) : calls[k].params.jobId = event[i].id
    /\ \A k \in DOMAIN calls :
           (calls[k].op \in ReportOps /\ calls[k].params.jobId = event[i].id) => calls[k].inv = i

\* The DeploymentResult of invocation i is built from its own config,
\* artifacts and call results.
ResultFromOwnCalls(i) ==
    deploymentResult[i] # NoResult =>
        /\ config[i] = ResolveConfig(env, event[i].configuration)
        /\ deploymentResult[i].type = config[i].deploymentType
        /\ deploymentResult[i].type = "lambda" =>
               /\ deploymentResult[i] = LambdaResult(updateResult[i])
               /\ \E k \in CallsOf(i, {"updateFunctionCode"}) :
                      /\ calls[k].status = "ok"
                      /\ calls[k].params.FunctionName = config[i].targetFunction
                      /\ calls[k].params.ZipFile = AppArtifact(artifacts[i]).data
        /\ deploymentResult[i].type = "ecs" =>
               \E k \in CallsOf(i, {"updateService"}) :
                   /\ calls[k].status = "ok"
                   /\ calls[k].params.service = Get(config[i], "serviceName")
                   /\ deploymentResult[i].serviceArn
                          = <<"arn:aws:ecs:service/", calls[k].params.cluster, calls[k].params.service>>
        /\ deploymentResult[i].type = "s3" =>
               \E k \in CallsOf(i, {"upload"}) :
                   /\ calls[k].status = "ok"
                   /\ calls[k].params.Body = AppArtifact(artifacts[i]).data
                   /\ deploymentResult[i].location = <<Get(config[i], "bucketName"), calls[k].params.Key>>

\* The artifacts of invocation i are the payloads of its own input artifacts.
ArtifactsFromOwnJob(i) ==
    \A name \in DOMAIN artifacts[i] :
        \E n \in 1..Len(event[i].inputArtifacts) :
            LET ref == event[i].inputArtifacts[n]
            IN  /\ ref.name = name
                /\ artifacts[i][name].data
                       = S3Object(ref.location.s3Location.bucketName,
                                  ref.location.s3Location.objectKey).Body

\* The outcome of a finished invocation i follows from its own calls.
OutcomeFromOwnCalls(i) ==
    Finished(i) =>
        /\ response[i].kind = "resolved" <=>
               \E k \in CallsOf(i, {"putJobSuccessResult"}) : calls[k].status = "ok"
        /\ response[i].kind = "resolved" =>
               /\ AllCallsSucceeded(i)
               /\ response[i].body.jobId = event[i].id
               /\ response[i].body.result = deploymentResult[i]

\* Two interleaved invocations do not affect each other.
JobsIsolated ==
    \A i \in DOMAIN pc :
        ReportsOwnJobOnly(i) /\ ResultFromOwnCalls(i) /\ ArtifactsFromOwnJob(i) /\ OutcomeFromOwnCalls(i)

(* C24: jobs processed in interleaved invocations share no mutable state:
   under every interleaving of the steps of two jobs, each job gets exactly
   one report call, carrying its own job id, and the outcome and the
   DeploymentResult reported for a job depend only on that job's own config,
   artifacts and call results.  The isolation holds (JobsIsolated); the count
   of report calls is broken when putJobSuccessResult rejects. *)
C24_ConcurrentJobsEachReportedOnce ==
    /\ JobsIsolated
    /\ \A i \in DOMAIN pc :
           (Finished(i) /\ ReceivedJob(i)) =>
               Cardinality({k \in DOMAIN calls :
                              calls[k].op \in ReportOps /\ calls[k].params.jobId = event[i].id}) = 1

-----------------------------------------------------------------------------
\* The payload downloaded for the input artifact of invocation i called name.
PayloadOf(i, name) ==
    LET n == CHOOSE n \in 1..Len(event[i].inputArtifacts) : event[i].inputArtifacts[n].name = name
        location == event[i].inputArtifacts[n].location.s3Location
    IN  S3Object(location.bucketName, location.objectKey).Body

\* The payloads that invocation i has pushed to a backend.
PushedPayloads(i) ==
    {calls[k].params.ZipFile : k \in CallsOf(i, {"updateFunctionCode"})}
        \cup {calls[k].params.Body : k \in CallsOf(i, {"upload"})}

(* C26: the function-update and the static-artifact backends select the
   payload by fallback: when the artifact set contains 'BuildArtifact', its
   payload is the one pushed, whether or not 'SourceOutput' is present too;
   the payload of 'SourceOutput' is pushed only when 'BuildArtifact' is
   absent. *)
C26_BuildArtifactBeforeSourceOutput ==
    \A i \in DOMAIN pc :
        \A payload \in PushedPayloads(i) :
            /\ "BuildArtifact" \in DOMAIN artifacts[i] => payload = PayloadOf(i, "BuildArtifact")
            /\ "BuildArtifact" \notin DOMAIN artifacts[i] =>
                   /\ "SourceOutput" \in DOMAIN artifacts[i]
                   /\ payload = PayloadOf(i, "SourceOutput")

C26_Witness ==
    \E i \in DOMAIN pc :
        /\ DOMAIN artifacts[i] = {"BuildArtifact", "SourceOutput"}
        /\ event[i].inputArtifacts[1].name = "BuildArtifact"
        /\ PushedPayloads(i) = {PayloadOf(i, "BuildArtifact")}
        /\ PayloadOf(i, "BuildArtifact") # PayloadOf(i, "SourceOutput")

-----------------------------------------------------------------------------
(* C27: in the function-update backend the configuration-update call is made
   if and only if the resolved environment is not 'production', and when made
   it comes only after the code-update call and the wait-for-updated call have
   both succeeded. *)
C27_ConfigurationUpdateOutsideProduction ==
    \A i \in DOMAIN pc :
        /\ \A k \in CallsOf(i, {"updateFunctionConfiguration"}) :
               /\ config[i].environment # "production"
               /\ \E j \in CallsOf(i, {"updateFunctionCode"}), w \in CallsOf(i, {"waitFor"}) :
                      /\ j < w /\ w < k
                      /\ calls[j].status = "ok"
                      /\ calls[w].status = "ok"
        /\ ( /\ \E w \in CallsOf(i, {"waitFor"}) : calls[w].status = "ok"
             /\ config[i].environment # "production"
             /\ pc[i] # "updateFunctionConfiguration" ) =>
               Cardinality(CallsOf(i, {"updateFunctionConfiguration"})) = 1
        /\ (deploymentResult[i] # NoResult /\ deploymentResult[i].type = "lambda") =>
               (CallsOf(i, {"updateFunctionConfiguration"}) # {}
                    <=> config[i].environment # "production")

C27_Witness ==
    \E i \in DOMAIN pc :
        /\ Finished(i)
        /\ deploymentResult[i].type = "lambda"
        /\ config[i].environment = "development"
        /\ \E k \in CallsOf(i, {"updateFunctionConfiguration"}) :
               /\ calls[k].status = "ok"
               /\ calls[k - 1].op = "waitFor"

-----------------------------------------------------------------------------
\* The service-update request that the job of invocation i calls for: it is
\* built from the resolved config alone.
ServiceUpdateFor(i) ==
    LET resolved == ResolveConfig(env, event[i].configuration)
    IN  [cluster |-> OrElse(Get(resolved, "clusterName"), "default"),
         service |-> Get(resolved, "serviceName"),
         forceNewDeployment |-> TRUE]

\* Invocation i has left the container-service backend.
LeftECS(i) == pc[i] \notin {"start", "getDeploymentConfig", "processArtifacts",
                            "executeDeployment", "deployToECS", "updateService"}

(* C28: the container-service backend consumes no artifact payload: its call
   and its result are the same for every artifact set, the empty set included
   (it never fails for a missing artifact); it issues exactly one
   forced-new-deployment service update, and a failure of that call fails the
   job with a failure report. *)
C28_ContainerServiceIgnoresArtifacts ==
    \A i \in DOMAIN pc :
        (ReceivedJob(i) /\ ResolvedType(i) = "ecs") =>
            /\ \A k \in CallsOf(i, {"updateService"}) : calls[k].params = ServiceUpdateFor(i)
            /\ Cardinality(CallsOf(i, {"updateService"})) <= 1
            /\ (LeftECS(i) /\ FailedCalls(i, {"getObject"}) = {}) =>
                   Cardinality(CallsOf(i, {"updateService"})) = 1
            /\ CallsOf(i, BackendOps \ {"updateService"}) = {}
            /\ deploymentResult[i] # NoResult =>
                   deploymentResult[i]
                       = [type |-> "ecs",
                          serviceArn |-> <<"arn:aws:ecs:service/", ServiceUpdateFor(i).cluster,
                                           ServiceUpdateFor(i).service>>,
                          taskDefinition |-> "current-task-definition"]
            /\ FailedCalls(i, {"updateService"}) # {} =>
                   /\ deploymentResult[i] = NoResult
                   /\ pc[i] \in {"catch", "putJobFailureResult", "done"}
                   /\ EndsWithFailureReportOnly(i)

C28_Witness ==
    \E i \in DOMAIN pc :
        /\ ReceivedJob(i)
        /\ ResolvedType(i) = "ecs"
        /\ event[i].inputArtifacts = <<>>
        /\ artifacts[i] = EmptyObject
        /\ deploymentResult[i] # NoResult
        /\ Finished(i)
        /\ response[i].kind = "resolved"

-----------------------------------------------------------------------------
\* The operations and the statements of each backend kind.
OpsOfBackend(type) ==
    IF type = "lambda" THEN {"updateFunctionCode", "waitFor", "updateFunctionConfiguration"}
    ELSE IF type = "ecs" THEN {"updateService"}
    ELSE IF type = "s3" THEN {"upload"}
    ELSE {}

LabelsOfBackend(type) ==
    IF type = "lambda"
        THEN {"deployToLambda", "updateFunctionCode", "waitFor", "updateFunctionConfiguration"}
    ELSE IF type = "ecs" THEN {"deployToECS", "updateService"}
    ELSE IF type = "s3" THEN {"deployToS3", "upload"}
    ELSE {}

(* C29: each job dispatches to at most one backend kind, determined solely by
   the resolved deployment type, and a DeploymentResult is produced by exactly
   one backend invocation: no execution calls operations of two different
   backends for the same job. *)
C29_AtMostOneBackend ==
    \A i \in DOMAIN pc :
        /\ \A k \in CallsOf(i, BackendOps) : calls[k].op \in OpsOfBackend(ResolvedType(i))
        /\ pc[i] \in (DispatchLabels \ {"executeDeployment"}) => pc[i] \in LabelsOfBackend(ResolvedType(i))
        /\ \A op \in {"updateFunctionCode", "updateService", "upload"} :
               Cardinality(CallsOf(i, {op})) <= 1
        /\ deploymentResult[i] # NoResult =>
               /\ deploymentResult[i].type = ResolvedType(i)
               /\ \E k \in CallsOf(i, {"updateFunctionCode", "updateService", "upload"}) :
                      /\ calls[k].status = "ok"
                      /\ CallsOf(i, {"updateFunctionCode", "updateService", "upload"}) = {k}

C29_Witness ==
    \E i \in DOMAIN pc :
        /\ Finished(i)
        /\ env.DEPLOYMENT_TYPE = "ecs"
        /\ event[i].configuration = [deploymentType |-> "lambda", targetFunction |-> "fn-1"]
        /\ deploymentResult[i].type = "lambda"
        /\ CallsOf(i, {"waitFor"}) # {}
        /\ CallsOf(i, {"updateService", "upload"}) = {}

-----------------------------------------------------------------------------
(* C30: once built by config resolution, the DeploymentConfig is not modified
   by any later step of the job: artifact resolution, every backend, the
   writing of the output artifacts and the reporting leave every key of the
   config unchanged. *)
C30_ConfigImmutableOnceBuilt ==
    [][\A i \in DOMAIN pc :
          ConfigResolved(i) =>
              /\ config[i] = ResolveConfig(env, event[i].configuration)
              /\ config'[i] = config[i]]_vars

C30_Witness ==
    \E i \in DOMAIN pc :
        /\ ConfigResolved(i)
        /\ Finished(i)
        /\ config[i] = ResolveConfig(env, event[i].configuration)
        /\ "clusterName" \notin DOMAIN config[i]
        /\ CallsOf(i, {"updateService"}) # {}
        /\ CallsOf(i, {"putObject"}) # {}
        /\ CallsOf(i, {"putJobSuccessResult"}) # {}

-----------------------------------------------------------------------------
(***************************************************************************)
(* The notification handler (src/unnamed/part_000, lines 270-470): it       *)
(* looks up the pipeline execution of a state-change event, builds a Slack  *)
(* message, posts it when a webhook is configured, mails it when mails are  *)
(* enabled, and answers 200; any error is posted to Slack and answered 500. *)
(***************************************************************************)

NotifiedOk == 200
NotifyFailed == 500

SlackUrl == "https://hooks.slack.com/test"

\* process.env of the notification function, as deployed.
NotifyEnvironments ==
    [SLACK_WEBHOOK_URL : {Unset, SlackUrl},
     ENABLE_EMAIL_NOTIFICATIONS : {Unset, "true", "false"},
     NOTIFICATION_EMAIL : {"ops@example.com"}]

PipelineStates == {"SUCCEEDED", "FAILED", "STARTED"}

\* The state-change events: event.detail with pipeline, execution-id and state.
NotifyEvents ==
    { [detail |-> [pipeline |-> "test-pipeline", executionId |-> "test-execution-id", state |-> state]]
        : state \in PipelineStates }

(* What codepipeline.getPipelineExecution resolves with for execution id:
   the execution at the top level of the response, with or without a trigger,
   as the test double returns it (tests/lambda.test.js, lines 8-13), or nested
   under the key pipelineExecution, as the CodePipeline API returns it. *)
PipelineExecutions(id) ==
    { [pipelineExecutionId |-> id, trigger |-> [triggerType |-> "Webhook"]],
      [pipelineExecutionId |-> id],
      [pipelineExecution |-> [pipelineExecutionId |-> id, status |-> "Succeeded"]] }

TypeErrorNoSubstring == <<"Cannot read properties of undefined (reading 'substring')">>

\* An error leaves the try block of the notification handler.
ThrowInNotifier(i, text) ==
    /\ error' = [error EXCEPT ![i] = text]
    /\ raised' = [raised EXCEPT ![i] = Append(@, text)]
    /\ Goto(i, "sendErrorNotification")

\* The statement after the message is built, and after each delivery.
AfterMessage == IF OrElse(env.SLACK_WEBHOOK_URL, Undefined) # Undefined
                    THEN "sendSlackNotification" ELSE
                IF env.ENABLE_EMAIL_NOTIFICATIONS = "true"
                    THEN "sendEmailNotification" ELSE "returnNotified"

AfterSlack == IF env.ENABLE_EMAIL_NOTIFICATIONS = "true"
                  THEN "sendEmailNotification" ELSE "returnNotified"

GetPipelineExecution(i) ==
    /\ pc[i] = "start"
    /\ Issue(i, "getPipelineExecution",
             [pipelineName |-> event[i].detail.pipeline,
              pipelineExecutionId |-> event[i].detail.executionId])
    /\ Goto(i, "getPipelineExecution")
    /\ UNCHANGED <<scriptVars, orchestratorVars, notifierVars, env, now, event, error, raised, response>>

GetPipelineExecutionDone(i) ==
    /\ pc[i] = "getPipelineExecution"
    /\ pending[i] # 0
    /\ \/ \E execution \in PipelineExecutions(calls[pending[i]].params.pipelineExecutionId) :
              /\ Settle(i, "ok")
              /\ pipelineExecution' = [pipelineExecution EXCEPT ![i] = execution]
              /\ Goto(i, "buildSlackMessage")
              /\ UNCHANGED <<error, raised>>
       \/ \E fault \in FaultMessages :
              /\ Settle(i, "failed")
              /\ ThrowInNotifier(i, fault)
              /\ UNCHANGED pipelineExecution
    /\ UNCHANGED <<scriptVars, orchestratorVars, slackMessage, env, now, event, response>>

\* color and emoji of the attachment, by state.
Color(state) == IF state = "FAILED" THEN "#ff0000" ELSE IF state = "STARTED" THEN "#ffaa00" ELSE "#36a64f"

Emoji(state) == IF state = "FAILED" THEN "cross" ELSE IF state = "STARTED" THEN "rocket" ELSE "check"

SlackMessage(pipelineName, state, execution, timestamp, ts) ==
    LET trigger == IF "trigger" \in DOMAIN execution THEN execution.trigger ELSE EmptyObject
        fields == << [title |-> "Pipeline", value |-> pipelineName, short |-> TRUE],
                     [title |-> "Status", value |-> state, short |-> TRUE],
                     [title |-> "Execution ID",
                      value |-> <<"first 8 of", execution.pipelineExecutionId, "...">>, short |-> TRUE],
                     [title |-> "Timestamp", value |-> timestamp, short |-> TRUE] >>
        triggered == IF Get(trigger, "triggerType") = "Webhook"
                         THEN << [title |-> "Triggered by",
                                  value |-> <<"Git commit: ", OrElse(Get(trigger, "triggerDetail"), "Unknown")>>,
                                  short |-> FALSE] >>
                         ELSE << >>
    IN  [username |-> "LambdaDeploy Pipeline", icon_emoji |-> ":rocket:",
         attachments |-> << [color |-> Color(state),
                             title |-> <<Emoji(state), " Pipeline ", state>>,
                             title_link |-> <<"https://console.aws.amazon.com/codesuite/codepipeline/pipelines/",
                                              pipelineName, "/view">>,
                             fields |-> fields \o triggered,
                             footer |-> "LambdaDeploy Pipeline",
                             ts |-> ts] >>]

BuildSlackMessage(i) ==
    /\ pc[i] = "buildSlackMessage"
    /\ \E timestamp \in now..MaxTime :
          IF Get(pipelineExecution[i], "pipelineExecutionId") = Undefined
             THEN /\ ReadClock(timestamp)
                  /\ ThrowInNotifier(i, TypeErrorNoSubstring)
                  /\ UNCHANGED slackMessage
             ELSE \E ts \in timestamp..MaxTime :
                      /\ ReadClock(ts)
                      /\ slackMessage' = [slackMessage EXCEPT ![i] =
                             SlackMessage(event[i].detail.pipeline, event[i].detail.state,
                                          pipelineExecution[i], timestamp, ts)]
                      /\ Goto(i, AfterMessage)
                      /\ UNCHANGED <<error, raised>>
    /\ UNCHANGED <<scriptVars, orchestratorVars, pipelineExecution, env, event, pending, calls, response>>

SendSlackNotification(i) ==
    /\ pc[i] = "sendSlackNotification"
    /\ Issue(i, "axios.post",
             [url |-> env.SLACK_WEBHOOK_URL, data |-> slackMessage[i],
              headers |-> [ContentType |-> "application/json"]])
    /\ UNCHANGED <<scriptVars, orchestratorVars, notifierVars, env, now, event, pc, idx, error, raised, response>>

\* The catch clause of sendSlackNotification logs the error and rethrows it.
SendSlackNotificationDone(i) ==
    /\ pc[i] = "sendSlackNotification"
    /\ pending[i] # 0
    /\ \/ /\ Settle(i, "ok")
          /\ Goto(i, AfterSlack)
          /\ UNCHANGED <<error, raised>>
       \/ \E fault \in FaultMessages :
              /\ Settle(i, "failed")
              /\ ThrowInNotifier(i, fault)
    /\ UNCHANGED <<scriptVars, orchestratorVars, notifierVars, env, now, event, response>>

SendEmailNotification(i) ==
    /\ pc[i] = "sendEmailNotification"
    /\ Issue(i, "sendEmail",
             [Destination |-> [ToAddresses |-> <<env.NOTIFICATION_EMAIL>>],
              Message |-> [Body |-> [Text |-> [Data |-> slackMessage[i]]],
                           Subject |-> [Data |-> <<"LambdaDeploy Pipeline Notification - ",
                                                   slackMessage[i].attachments[1].fields[2].value>>]],
              Source |-> env.NOTIFICATION_EMAIL])
    /\ UNCHANGED <<scriptVars, orchestratorVars, notifierVars, env, now, event, pc, idx, error, raised, response>>

SendEmailNotificationDone(i) ==
    /\ pc[i] = "sendEmailNotification"
    /\ pending[i] # 0
    /\ \/ /\ Settle(i, "ok")
          /\ Goto(i, "returnNotified")
          /\ UNCHANGED <<error, raised>>
       \/ \E fault \in FaultMessages :
              /\ Settle(i, "failed")
              /\ ThrowInNotifier(i, fault)
    /\ UNCHANGED <<scriptVars, orchestratorVars, notifierVars, env, now, event, response>>

ReturnNotified(i) ==
    /\ pc[i] = "returnNotified"
    /\ response' = [response EXCEPT ![i] =
           [kind |-> "resolved", statusCode |-> NotifiedOk,
            body |-> [message |-> "Notification sent successfully",
                      pipelineName |-> event[i].detail.pipeline,
                      state |-> event[i].detail.state,
                      executionId |-> event[i].detail.executionId]]]
    /\ Goto(i, "done")
    /\ UNCHANGED <<scriptVars, orchestratorVars, notifierVars, env, now, event, pending, error, raised, calls>>

\* What the catch clause of the notification handler returns.
ReturnFailed(i) ==
    /\ response' = [response EXCEPT ![i] =
           [kind |-> "resolved", statusCode |-> NotifyFailed,
            body |-> [error |-> "Failed to process notification", details |-> error[i]]]]
    /\ Goto(i, "done")

\* sendErrorNotification: nothing is posted without a webhook.
SendErrorNotification(i) ==
    /\ pc[i] = "sendErrorNotification"
    /\ pending[i] = 0
    /\ IF OrElse(env.SLACK_WEBHOOK_URL, Undefined) = Undefined
          THEN /\ ReturnFailed(i)
               /\ UNCHANGED <<now, pending, calls>>
          ELSE /\ \E t \in now..MaxTime :
                      /\ ReadClock(t)
                      /\ Issue(i, "axios.post",
                               [url |-> env.SLACK_WEBHOOK_URL,
                                data |-> [username |-> "LambdaDeploy Pipeline", icon_emoji |-> ":warning:",
                                          attachments |-> << [color |-> "#ff0000",
                                              title |-> "Notification Handler Error",
                                              fields |-> << [title |-> "Error", value |-> error[i], short |-> FALSE],
                                                            [title |-> "Timestamp", value |-> t, short |-> TRUE] >>,
                                              footer |-> "LambdaDeploy Pipeline Error Handler"] >>]])
               /\ UNCHANGED <<pc, idx, response>>
    /\ UNCHANGED <<scriptVars, orchestratorVars, notifierVars, env, event, error, raised>>

\* A variant in which a failure of the error post escapes the handler.
SendErrorNotificationDone_Rethrows(i) ==
    /\ pc[i] = "sendErrorNotification"
    /\ pending[i] # 0
    /\ \/ /\ Settle(i, "ok")
          /\ ReturnFailed(i)
       \/ /\ Settle(i, "failed")
          /\ response' = [response EXCEPT ![i] =
                 [kind |-> "rejected", message |-> <<"Request failed with status code 500">>]]
          /\ Goto(i, "done")
    /\ UNCHANGED <<scriptVars, orchestratorVars, notifierVars, env, now, event, error, raised>>

\* A failure of the error post is logged and swallowed.
SendErrorNotificationDone(i) ==
    /\ pc[i] = "sendErrorNotification"
    /\ pending[i] # 0
    /\ \E status \in {"ok", "failed"} : Settle(i, status)
    /\ ReturnFailed(i)
    /\ UNCHANGED <<scriptVars, orchestratorVars, notifierVars, env, now, event, error, raised>>

NotifyInit ==
    /\ env \in NotifyEnvironments
    /\ now \in 0..MaxTime
    /\ event \in [Handlers -> NotifyEvents]
    /\ pc = [i \in Handlers |-> "start"]
    /\ pending = [i \in Handlers |-> 0]
    /\ idx = [i \in Handlers |-> 1]
    /\ config = [i \in Handlers |-> EmptyObject]
    /\ artifacts = [i \in Handlers |-> EmptyObject]
    /\ updateResult = [i \in Handlers |-> EmptyObject]
    /\ deploymentResult = [i \in Handlers |-> NoResult]
    /\ error = [i \in Handlers |-> <<>>]
    /\ raised = [i \in Handlers |-> <<>>]
    /\ calls = <<>>
    /\ response = [i \in Handlers |-> NoResponse]
    /\ pipelineExecution = [i \in Handlers |-> Undefined]
    /\ slackMessage = [i \in Handlers |-> Undefined]
    /\ locals = [i \in Handlers |-> EmptyObject]
    /\ files = {}

NotifyNext ==
    \E i \in Handlers :
        \/ GetPipelineExecution(i)
        \/ GetPipelineExecutionDone(i)
        \/ BuildSlackMessage(i)
        \/ SendSlackNotification(i)
        \/ SendSlackNotificationDone(i)
        \/ SendEmailNotification(i)
        \/ SendEmailNotificationDone(i)
        \/ ReturnNotified(i)
        \/ SendErrorNotification(i)
        \/ SendErrorNotificationDone(i)

NotifySpec == NotifyInit /\ [][NotifyNext]_vars

NotifyOps == {"getPipelineExecution", "axios.post", "sendEmail"}

(* C25: for any pipeline state (SUCCEEDED, FAILED, STARTED), when its
   downstream calls succeed, the notification handler returns statusCode 200
   with message 'Notification sent successfully' and echoes the state of the
   event; it posts to Slack only when a Slack webhook URL is configured, and
   still returns 200 when none is configured.  The code breaks this when
   getPipelineExecution succeeds with the execution nested under
   pipelineExecution: buildSlackMessage then throws on
   executionId.substring and the handler returns 500. *)
C25_NotificationSentWhenCallsSucceed ==
    \A i \in DOMAIN pc :
        ( /\ Finished(i)
          /\ event[i].detail.state \in PipelineStates
          /\ \A k \in CallsOf(i, NotifyOps) : calls[k].status = "ok" ) =>
            /\ response[i].kind = "resolved"
            /\ response[i].statusCode = NotifiedOk
            /\ response[i].body.message = "Notification sent successfully"
            /\ response[i].body.state = event[i].detail.state
            /\ CallsOf(i, {"axios.post"}) # {} => env.SLACK_WEBHOOK_URL # Unset
            /\ env.SLACK_WEBHOOK_URL # Unset =>
                   \E k \in CallsOf(i, {"axios.post"}) : calls[k].params.data = slackMessage[i]

-----------------------------------------------------------------------------
(* Two invocations at once, each with a job of its own id that needs no
   artifact: a container-service deployment or an unsupported type.  Only the
   handler's own statements and the container-service backend can run. *)

PairJobs ==
    { [deploymentType |-> "ecs", serviceName |-> "web", clusterName |-> "main"],
      [deploymentType |-> "carrier-pigeon"] }

PairEvents(i) ==
    { [hasJob |-> TRUE, id |-> ConcJobId[i], inputArtifacts |-> <<>>,
       outputArtifacts |-> <<>>, configuration |-> configuration] : configuration \in PairJobs }

PairInit ==
    /\ env = [DEPLOYMENT_TYPE |-> Unset, TARGET_FUNCTION_NAME |-> Unset,
              ENVIRONMENT |-> Unset, AWS_REGION |-> "eu-west-1"]
    /\ now = 0
    /\ event \in {e \in [ConcHandlers -> UNION {PairEvents(i) : i \in ConcHandlers}] :
                     \A i \in ConcHandlers : e[i] \in PairEvents(i)}
    /\ pc = [i \in ConcHandlers |-> "start"]
    /\ pending = [i \in ConcHandlers |-> 0]
    /\ idx = [i \in ConcHandlers |-> 1]
    /\ config = [i \in ConcHandlers |-> EmptyObject]
    /\ artifacts = [i \in ConcHandlers |-> EmptyObject]
    /\ updateResult = [i \in ConcHandlers |-> EmptyObject]
    /\ deploymentResult = [i \in ConcHandlers |-> NoResult]
    /\ error = [i \in ConcHandlers |-> <<>>]
    /\ raised = [i \in ConcHandlers |-> <<>>]
    /\ calls = <<>>
    /\ response = [i \in ConcHandlers |-> NoResponse]
    /\ pipelineExecution = [i \in ConcHandlers |-> Undefined]
    /\ slackMessage = [i \in ConcHandlers |-> Undefined]
    /\ locals = [i \in ConcHandlers |-> EmptyObject]
    /\ files = {}

PairNext ==
    \E i \in ConcHandlers :
        \/ Extract(i)
        \/ GetDeploymentConfig(i)
        \/ ProcessArtifactsReturn(i)
        \/ ExecuteDeployment(i)
        \/ DeployToECS(i)
        \/ UpdateServiceDone(i)
        \/ UpdateOutputArtifactsReturn(i)
        \/ PutJobSuccessResult(i)
        \/ PutJobSuccessResultDone(i)
        \/ Return(i)
        \/ Catch(i)
        \/ PutJobFailureResultDone(i)

PairSpec == PairInit /\ [][PairNext]_vars

(* C31: every report call of a job, success or failure, carries exactly the
   job id of the event that the handler received; no report is ever sent for
   a different job id. *)
C31_ReportCarriesOwnJobId ==
    \A k \in DOMAIN calls :
        calls[k].op \in ReportOps =>
            /\ event[calls[k].inv].hasJob
            /\ calls[k].params.jobId = event[calls[k].inv].id

C31_Witness ==
    /\ \E k \in DOMAIN calls :
           /\ calls[k].op = "putJobSuccessResult"
           /\ calls[k].inv = "invocation-1"
           /\ calls[k].params.jobId = "job-1"
    /\ \E k \in DOMAIN calls :
           /\ calls[k].op = "putJobFailureResult"
           /\ calls[k].inv = "invocation-2"
           /\ calls[k].params.jobId = "job-2"
    /\ \A i \in DOMAIN pc : Finished(i)

-----------------------------------------------------------------------------
\* Something failed in invocation i: a call was rejected or an error was raised.
SomethingFailed(i) == FailedCalls(i, StageOps \cup ReportOps) # {} \/ raised[i] # <<>>

(* C32: whenever a job fails before or during reporting, the invocation
   rejects to its caller and never returns a normal 200 result: after a
   failure report has been sent the error that was caught is rethrown, and a
   normal return value is produced only where the success report call
   succeeded. *)
C32_FailureRejects ==
    \A i \in DOMAIN pc :
        Finished(i) =>
            /\ SomethingFailed(i) => response[i].kind = "rejected"
            /\ response[i].kind = "resolved" =>
                   /\ \E k \in CallsOf(i, {"putJobSuccessResult"}) : calls[k].status = "ok"
                   /\ response[i].statusCode = 200
            /\ \A k \in CallsOf(i, {"putJobFailureResult"}) :
                   calls[k].status = "ok" =>
                       /\ response[i].kind = "rejected"
                       /\ response[i].message = calls[k].params.failureDetails.message
                       /\ response[i].message = raised[i][Len(raised[i])]

C32_Witness ==
    \E i \in DOMAIN pc :
        /\ Finished(i)
        /\ FailedCalls(i, {"updateFunctionCode"}) # {}
        /\ \E k \in CallsOf(i, {"putJobFailureResult"}) : calls[k].status = "ok"
        /\ response[i].kind = "rejected"
        /\ ContainsText(response[i].message, <<"Lambda deployment failed: ">>)

-----------------------------------------------------------------------------
(* C33: an event that carries no 'CodePipeline.job' entry causes no report
   call of either kind and no artifact fetch or backend call; the handler
   rejects to its caller. *)
C33_NoJobNoCalls ==
    \A i \in DOMAIN pc :
        ~ReceivedJob(i) =>
            /\ CallsOf(i, StageOps \cup ReportOps) = {}
            /\ \A k \in DOMAIN calls : calls[k].inv # i
            /\ pc[i] \in {"start", "catch", "done"}
            /\ Finished(i) =>
                   /\ response[i].kind = "rejected"
                   /\ response[i].message = TypeErrorNoJob

C33_Witness ==
    \E i \in DOMAIN pc :
        /\ ~ReceivedJob(i)
        /\ Finished(i)
        /\ response[i].kind = "rejected"
        /\ calls = <<>>

-----------------------------------------------------------------------------
\* The rank of call k among the calls of invocation i to the operations ops.
RankOf(i, ops, k) == Cardinality({j \in CallsOf(i, ops) : j <= k})

(* C34: the input artifacts are fetched one at a time in the order of the
   job's input list, and fetching stops at the first failing fetch: no
   artifact that follows a failed one in the list is fetched. *)
C34_FetchInOrderUntilFailure ==
    \A i \in DOMAIN pc :
        \A k \in CallsOf(i, {"getObject"}) :
            LET n == RankOf(i, {"getObject"}, k)
            IN  /\ n <= Len(event[i].inputArtifacts)
                /\ calls[k].params
                       = [Bucket |-> event[i].inputArtifacts[n].location.s3Location.bucketName,
                          Key |-> event[i].inputArtifacts[n].location.s3Location.objectKey]
                /\ \A j \in CallsOf(i, {"getObject"}) : j < k => calls[j].status = "ok"

C34_Witness ==
    \E i \in DOMAIN pc :
        /\ Len(event[i].inputArtifacts) = 2
        /\ Cardinality(CallsOf(i, {"getObject"})) = 1
        /\ FailedCalls(i, {"getObject"}) # {}
        /\ Finished(i)

-----------------------------------------------------------------------------
\* The calls by which a backend changes its target, and the steps after them.
MutatingOps == {"updateFunctionCode", "updateService", "upload"}

LateOps == {"waitFor", "updateFunctionConfiguration", "putObject"}

\* Call f of invocation i failed after a mutating call of the job had succeeded.
LateFailure(i, f) ==
    /\ f \in FailedCalls(i, LateOps)
    /\ \E m \in CallsOf(i, MutatingOps) : m < f /\ calls[m].status = "ok"

(* C35: no compensation is performed after a late failure: when the mutating
   call of a backend has succeeded and a later step of the job fails (the
   wait, the configuration update, an output-artifact write), the job is
   reported failed and no further backend call is issued to undo the mutation;
   a failure report does not imply that the target was left unchanged. *)
C35_NoCompensationAfterLateFailure ==
    \A i \in DOMAIN pc :
        \A f \in DOMAIN calls :
            LateFailure(i, f) =>
                /\ \A k \in CallsOf(i, StageOps \cup ReportOps) :
                       k > f => calls[k].op = "putJobFailureResult"
                /\ pc[i] \in {"catch", "putJobFailureResult", "done"}
                /\ EndsWithFailureReportOnly(i)

C35_Witness ==
    \E i \in DOMAIN pc :
        /\ Finished(i)
        /\ \E m \in CallsOf(i, {"updateFunctionCode"}) : calls[m].status = "ok"
        /\ \E f \in CallsOf(i, {"waitFor"}) : LateFailure(i, f)
        /\ \E k \in CallsOf(i, {"putJobFailureResult"}) : calls[k].status = "ok"

-----------------------------------------------------------------------------
(* One invocation with a container-service job that has no input artifact and
   whose job data declares up to MaxOutputs output artifacts, or has no
   outputArtifacts at all. *)

OutputsJob == [deploymentType |-> "ecs", serviceName |-> "web", clusterName |-> "main"]

OutputsEvents ==
    { [hasJob |-> TRUE, id |-> "job-1", inputArtifacts |-> <<>>,
       outputArtifacts |-> outputs, configuration |-> OutputsJob] : outputs \in OutputLists }
    \cup { [hasJob |-> TRUE, id |-> "job-1", inputArtifacts |-> <<>>, configuration |-> OutputsJob] }

OutputsInit ==
    /\ env \in Environments
    /\ now = 0
    /\ event \in [Handlers -> OutputsEvents]
    /\ pc = [i \in Handlers |-> "start"]
    /\ pending = [i \in Handlers |-> 0]
    /\ idx = [i \in Handlers |-> 1]
    /\ config = [i \in Handlers |-> EmptyObject]
    /\ artifacts = [i \in Handlers |-> EmptyObject]
    /\ updateResult = [i \in Handlers |-> EmptyObject]
    /\ deploymentResult = [i \in Handlers |-> NoResult]
    /\ error = [i \in Handlers |-> <<>>]
    /\ raised = [i \in Handlers |-> <<>>]
    /\ calls = <<>>
    /\ response = [i \in Handlers |-> NoResponse]
    /\ pipelineExecution = [i \in Handlers |-> Undefined]
    /\ slackMessage = [i \in Handlers |-> Undefined]
    /\ locals = [i \in Handlers |-> EmptyObject]
    /\ files = {}

OutputsNext ==
    \E i \in Handlers :
        \/ Extract(i)
        \/ GetDeploymentConfig(i)
        \/ ProcessArtifactsReturn(i)
        \/ ExecuteDeployment(i)
        \/ DeployToECS(i)
        \/ UpdateServiceDone(i)
        \/ PutObject(i)
        \/ PutObjectDone(i)
        \/ UpdateOutputArtifactsReturn(i)
        \/ PutJobSuccessResult(i)
        \/ PutJobSuccessResultDone(i)
        \/ Return(i)
        \/ Catch(i)
        \/ PutJobFailureResultDone(i)

OutputsSpec == OutputsInit /\ [][OutputsNext]_vars

(* C36: a job that declares no output artifacts (the list is absent or empty)
   performs no output-artifact write at all, and a job that declares n output
   artifacts performs at most n writes, stopping at the first failing write. *)
C36_WritesBoundedByDeclaredOutputs ==
    \A i \in DOMAIN pc :
        LET writes == CallsOf(i, {"putObject"})
            declared == DeclaredOutputs(event[i])
        IN  /\ ("outputArtifacts" \notin DOMAIN event[i] \/ declared = <<>>) => writes = {}
            /\ Cardinality(writes) <= Len(declared)
            /\ \A k \in writes :
                   /\ calls[k].params.Key
                          = declared[RankOf(i, {"putObject"}, k)].location.s3Location.objectKey
                   /\ \A j \in writes : j < k => calls[j].status = "ok"

C36_Witness ==
    \E i \in DOMAIN pc :
        /\ "outputArtifacts" \notin DOMAIN event[i]
        /\ CallsOf(i, {"putObject"}) = {}
        /\ Finished(i)
        /\ response[i].kind = "resolved"

\* The posts that sendErrorNotification made for invocation i.
ErrorPosts(i) ==
    {k \in CallsOf(i, {"axios.post"}) : calls[k].params.data.icon_emoji = ":warning:"}

\* The calls of the try block of the notification handler.
DeliveryCalls(i) == CallsOf(i, NotifyOps) \ ErrorPosts(i)

\* A step of the try block of invocation i failed.
StepFailed(i) == raised[i] # <<>> \/ \E k \in DeliveryCalls(i) : calls[k].status = "failed"

WebhookConfigured == OrElse(env.SLACK_WEBHOOK_URL, Undefined) # Undefined

(* C37: the notification handler never rejects: when a step of its try block
   (execution lookup, message build, Slack post, email send) fails it makes at
   most one error post to Slack, and only with a webhook configured, makes no
   further delivery call, ignores the outcome of the error post and resolves
   with statusCode 500. *)
C37_NotifierNeverRejects ==
    \A i \in DOMAIN pc :
        /\ response[i].kind # "rejected"
        /\ Cardinality(ErrorPosts(i)) <= 1
        /\ ErrorPosts(i) # {} => StepFailed(i) /\ WebhookConfigured
        /\ \A k \in ErrorPosts(i) : \A j \in DeliveryCalls(i) : j < k
        /\ Cardinality(FailedCalls(i, NotifyOps) \ ErrorPosts(i)) <= 1
        /\ (Finished(i) /\ StepFailed(i)) =>
               /\ response[i].kind = "resolved"
               /\ response[i].statusCode = NotifyFailed
               /\ WebhookConfigured <=> ErrorPosts(i) # {}
        /\ (Finished(i) /\ ~StepFailed(i)) =>
               /\ response[i].kind = "resolved"
               /\ response[i].statusCode = NotifiedOk

C37_Witness ==
    \E i \in DOMAIN pc :
        /\ Finished(i)
        /\ \E k \in ErrorPosts(i) : calls[k].status = "failed"
        /\ response[i].kind = "resolved"
        /\ response[i].statusCode = NotifyFailed

-----------------------------------------------------------------------------
(* The IAM role setup script (setupIAMRoles): three functions, run in order,  *)
(* each looking its role up before creating it and attaching its policies.   *)
(* A call settles with "ok" or with the code of the error it rejects with.   *)

ExitFailure == 1

\* The three roles, in the order setupIAMRoles creates them.
ServiceRoles ==
    << [fn |-> "createCodePipelineRole",
        roleName |-> "CodePipelineServiceRole-LambdaDeploy",
        trustPolicy |-> "../infrastructure/iam/codepipeline-trust-policy.json",
        policies |-> << "arn:aws:iam::aws:policy/AWSCodePipelineFullAccess",
                        "arn:aws:iam::aws:policy/AmazonS3FullAccess",
                        "arn:aws:iam::aws:policy/AWSCodeBuildDeveloperAccess",
                        "arn:aws:iam::aws:policy/AWSLambdaRole" >>,
        customPolicy |-> Undefined],
       [fn |-> "createCodeBuildRole",
        roleName |-> "CodeBuildServiceRole-LambdaDeploy",
        trustPolicy |-> "../infrastructure/iam/codebuild-trust-policy.json",
        policies |-> << "arn:aws:iam::aws:policy/AWSCodeBuildDeveloperAccess",
                        "arn:aws:iam::aws:policy/CloudWatchLogsFullAccess",
                        "arn:aws:iam::aws:policy/AmazonS3FullAccess" >>,
        customPolicy |-> "ParameterStoreAccess"],
       [fn |-> "createLambdaRole",
        roleName |-> "LambdaExecutionRole-LambdaDeploy",
        trustPolicy |-> "../infrastructure/iam/lambda-trust-policy.json",
        policies |-> << "arn:aws:iam::aws:policy/service-role/AWSLambdaBasicExecutionRole" >>,
        customPolicy |-> "LambdaDeployPolicy"] >>

TrustPolicyFiles == {ServiceRoles[k].trustPolicy : k \in DOMAIN ServiceRoles}

\* The codes an IAM call may reject with.
IamErrorCodes == {"NoSuchEntity", "AccessDenied"}

ENOENT == <<"ENOENT: no such file or directory">>

\* The role whose function invocation i is running.
CurrentRole(i) == ServiceRoles[locals[i].role]

\* An error leaves a create*Role function: its catch logs and rethrows, and
\* the catch of setupIAMRoles logs and ends the process.
Abort(i, message) ==
    /\ error' = [error EXCEPT ![i] = message]
    /\ raised' = [raised EXCEPT ![i] = Append(@, message)]
    /\ response' = [response EXCEPT ![i] = [kind |-> "exited", code |-> ExitFailure]]
    /\ Goto(i, "done")

\* A create*Role function returns: the next one starts, or the setup ends.
NextRole(i) ==
    IF locals[i].role < Len(ServiceRoles)
       THEN /\ locals' = [locals EXCEPT ![i].role = @ + 1]
            /\ Goto(i, "getRole")
            /\ UNCHANGED response
       ELSE /\ response' = [response EXCEPT ![i] = [kind |-> "resolved"]]
            /\ Goto(i, "done")
            /\ UNCHANGED locals

GetRole(i) ==
    /\ pc[i] = "getRole"
    /\ Issue(i, "getRole", [RoleName |-> CurrentRole(i).roleName])
    /\ UNCHANGED <<scriptVars, orchestratorVars, notifierVars, env, now, event, pc, idx,
                   error, raised, response>>

\* Variant: an existing role is created again.
GetRoleDone_CreateAnyway(i) ==
    /\ pc[i] = "getRole"
    /\ pending[i] # 0
    /\ \E code \in {"ok"} \cup IamErrorCodes :
           /\ Settle(i, code)
           /\ IF code \in {"ok", "NoSuchEntity"}
                 THEN /\ Goto(i, "createRole")
                      /\ UNCHANGED <<locals, response, error, raised>>
                 ELSE /\ Abort(i, <<code>>)
                      /\ UNCHANGED locals
    /\ UNCHANGED <<orchestratorVars, notifierVars, files, env, now, event>>

\* The role exists: the function returns.  Only NoSuchEntity lets it go on.
GetRoleDone(i) ==
    /\ pc[i] = "getRole"
    /\ pending[i] # 0
    /\ \/ /\ Settle(i, "ok")
          /\ NextRole(i)
          /\ UNCHANGED <<error, raised>>
       \/ \E code \in IamErrorCodes :
              /\ Settle(i, code)
              /\ IF code # "NoSuchEntity"
                    THEN /\ Abort(i, <<code>>)
                         /\ UNCHANGED locals
                    ELSE /\ Goto(i, "createRole")
                         /\ UNCHANGED <<locals, response, error, raised>>
    /\ UNCHANGED <<orchestratorVars, notifierVars, files, env, now, event>>

\* The trust policy is read from its file, then the role is created with it.
CreateRole(i) ==
    /\ pc[i] = "createRole"
    /\ pending[i] = 0
    /\ IF CurrentRole(i).trustPolicy \notin files
          THEN /\ Abort(i, ENOENT)
               /\ UNCHANGED <<pending, calls>>
          ELSE /\ Issue(i, "createRole",
                        [RoleName |-> CurrentRole(i).roleName,
                         AssumeRolePolicyDocument |-> CurrentRole(i).trustPolicy])
               /\ UNCHANGED <<pc, idx, error, raised, response>>
    /\ UNCHANGED <<scriptVars, orchestratorVars, notifierVars, env, now, event>>

\* What follows the attachment loop: the inline policy, if the role has one.
AfterPolicies(i) ==
    IF CurrentRole(i).customPolicy # Undefined
       THEN /\ Goto(i, "putRolePolicy")
            /\ UNCHANGED <<locals, response>>
       ELSE NextRole(i)

CreateRoleDone(i) ==
    /\ pc[i] = "createRole"
    /\ pending[i] # 0
    /\ \/ /\ Settle(i, "ok")
          /\ Goto(i, "attachRolePolicy")
          /\ UNCHANGED <<error, raised, response>>
       \/ \E code \in IamErrorCodes :
              /\ Settle(i, code)
              /\ Abort(i, <<code>>)
    /\ UNCHANGED <<scriptVars, orchestratorVars, notifierVars, env, now, event>>

\* for (const policyArn of policies): one attachment per managed policy.
AttachRolePolicy(i) ==
    /\ pc[i] = "attachRolePolicy"
    /\ idx[i] <= Len(CurrentRole(i).policies)
    /\ Issue(i, "attachRolePolicy",
             [RoleName |-> CurrentRole(i).roleName, PolicyArn |-> CurrentRole(i).policies[idx[i]]])
    /\ UNCHANGED <<scriptVars, orchestratorVars, notifierVars, env, now, event, pc, idx,
                   error, raised, response>>

AttachRolePolicyDone(i) ==
    /\ pc[i] = "attachRolePolicy"
    /\ pending[i] # 0
    /\ \/ /\ Settle(i, "ok")
          /\ IF idx[i] < Len(CurrentRole(i).policies)
                THEN /\ idx' = [idx EXCEPT ![i] = @ + 1]
                     /\ UNCHANGED <<pc, locals, response>>
                ELSE AfterPolicies(i)
          /\ UNCHANGED <<error, raised>>
       \/ \E code \in IamErrorCodes :
              /\ Settle(i, code)
              /\ Abort(i, <<code>>)
              /\ UNCHANGED locals
    /\ UNCHANGED <<orchestratorVars, notifierVars, files, env, now, event>>

PutRolePolicy(i) ==
    /\ pc[i] = "putRolePolicy"
    /\ Issue(i, "putRolePolicy",
             [RoleName |-> CurrentRole(i).roleName, PolicyName |-> CurrentRole(i).customPolicy])
    /\ UNCHANGED <<scriptVars, orchestratorVars, notifierVars, env, now, event, pc, idx,
                   error, raised, response>>

PutRolePolicyDone(i) ==
    /\ pc[i] = "putRolePolicy"
    /\ pending[i] # 0
    /\ \/ /\ Settle(i, "ok")
          /\ NextRole(i)
          /\ UNCHANGED <<error, raised>>
       \/ \E code \in IamErrorCodes :
              /\ Settle(i, code)
              /\ Abort(i, <<code>>)
              /\ UNCHANGED locals
    /\ UNCHANGED <<orchestratorVars, notifierVars, files, env, now, event>>

IamInit ==
    /\ env = [AWS_REGION |-> "eu-west-1"]
    /\ now = 0
    /\ event = [i \in Handlers |-> EmptyObject]
    /\ pc = [i \in Handlers |-> "getRole"]
    /\ pending = [i \in Handlers |-> 0]
    /\ idx = [i \in Handlers |-> 1]
    /\ config = [i \in Handlers |-> EmptyObject]
    /\ artifacts = [i \in Handlers |-> EmptyObject]
    /\ updateResult = [i \in Handlers |-> EmptyObject]
    /\ deploymentResult = [i \in Handlers |-> NoResult]
    /\ error = [i \in Handlers |-> <<>>]
    /\ raised = [i \in Handlers |-> <<>>]
    /\ calls = <<>>
    /\ response = [i \in Handlers |-> NoResponse]
    /\ pipelineExecution = [i \in Handlers |-> Undefined]
    /\ slackMessage = [i \in Handlers |-> Undefined]
    /\ locals = [i \in Handlers |-> [role |-> 1]]
    /\ files \in SUBSET TrustPolicyFiles

IamNext ==
    \E i \in Handlers :
        \/ GetRole(i)
        \/ GetRoleDone(i)
        \/ CreateRole(i)
        \/ CreateRoleDone(i)
        \/ AttachRolePolicy(i)
        \/ AttachRolePolicyDone(i)
        \/ PutRolePolicy(i)
        \/ PutRolePolicyDone(i)

IamSpec == IamInit /\ [][IamNext]_vars

\* The calls invocation i made for role r with one of the operations ops.
RoleCalls(i, r, ops) == {k \in CallsOf(i, ops) : calls[k].params.RoleName = r.roleName}

\* The operations that create a role or give it a policy.
RoleWrites == {"createRole", "attachRolePolicy", "putRolePolicy"}

(* C38: for each of the three roles of the IAM setup: when the lookup finds
   the role, no createRole, attachRolePolicy or putRolePolicy call is made for
   it; when the lookup fails with a code other than NoSuchEntity, the setup
   ends there, with a failure exit and without creating the role; and every
   policy attachment for a role comes after a createRole for it that
   succeeded. *)
C38_RoleSetupIdempotent ==
    \A i \in DOMAIN pc : \A n \in DOMAIN ServiceRoles :
        LET r == ServiceRoles[n]
            lookups == RoleCalls(i, r, {"getRole"})
            writes == RoleCalls(i, r, RoleWrites)
        IN  /\ Cardinality(lookups) <= 1
            /\ \A k \in lookups :
                   /\ calls[k].status = "ok" => writes = {}
                   /\ calls[k].status \notin {"ok", "pending", "NoSuchEntity"} =>
                          /\ writes = {}
                          /\ \A j \in DOMAIN calls : j <= k
                          /\ Finished(i)
                          /\ response[i] = [kind |-> "exited", code |-> ExitFailure]
            /\ \A k \in writes :
                   \E l \in lookups : l < k /\ calls[l].status = "NoSuchEntity"
            /\ Cardinality(RoleCalls(i, r, {"createRole"})) <= 1
            /\ \A k \in RoleCalls(i, r, {"attachRolePolicy", "putRolePolicy"}) :
                   \E c \in RoleCalls(i, r, {"createRole"}) : c < k /\ calls[c].status = "ok"

C38_Witness ==
    \E i \in DOMAIN pc :
        /\ \E k \in RoleCalls(i, ServiceRoles[1], {"getRole"}) : calls[k].status = "ok"
        /\ RoleCalls(i, ServiceRoles[1], RoleWrites) = {}
        /\ \E k \in RoleCalls(i, ServiceRoles[2], {"putRolePolicy"}) : calls[k].status = "ok"
        /\ \E k \in RoleCalls(i, ServiceRoles[3], {"getRole"}) : calls[k].status = "AccessDenied"
        /\ Finished(i)

-----------------------------------------------------------------------------
(* The cleanup script (cleanup): look the stack up, empty its buckets,       *)
(* delete the stack, delete the parameters.                                   *)

MaxBuckets == 2

CleanupStackName == <<"lambdadeploy-pipeline-", "dev">>

BucketPool == <<"artifact-bucket", "log-bucket", "site-bucket", "spare-bucket">>

\* PhysicalResourceId of the AWS::S3::Bucket resources that listStackResources reports.
BucketLists == {SubSeq(BucketPool, 1, n) : n \in 0..MaxBuckets}

\* Contents of a listObjectsV2 response.
ObjectListings == {<<>>, <<[Key |-> "build.zip"]>>}

\* Versions and DeleteMarkers of a listObjectVersions response.
VersionListings ==
    [Versions : {<<>>, <<[Key |-> "build.zip", VersionId |-> "v1"]>>},
     DeleteMarkers : {<<>>, <<[Key |-> "build.zip", VersionId |-> "v2"]>>}]

S3ErrorCodes == {"NoSuchBucket", "AccessDenied"}

\* The errors a CloudFormation call may reject with.
StackErrors ==
    { [code |-> "ValidationError", message |-> <<"Stack with id ", CleanupStackName, " does not exist">>],
      [code |-> "ValidationError", message |-> <<"Stack ", CleanupStackName, " is in a failed state">>],
      [code |-> "AccessDenied", message |-> <<"AccessDenied">>] }

ParameterNames == <<"/lambdadeploy/slack-webhook-url", "/lambdadeploy/github-token">>

ParameterErrorCodes == {"ParameterNotFound", "AccessDenied"}

\* cleanup returns normally.
Resolve(i) ==
    /\ response' = [response EXCEPT ![i] = [kind |-> "resolved"]]
    /\ Goto(i, "done")

\* getStackInfo: describeStacks for the stack of the environment.
GetStackInfo(i) ==
    /\ pc[i] = "getStackInfo"
    /\ Issue(i, "describeStacks", [StackName |-> CleanupStackName])
    /\ UNCHANGED <<scriptVars, orchestratorVars, notifierVars, env, now, event, pc, idx,
                   error, raised, response>>

\* A ValidationError makes getStackInfo return null, and cleanup return.
GetStackInfoDone(i) ==
    /\ pc[i] = "getStackInfo"
    /\ pending[i] # 0
    /\ \/ /\ Settle(i, "ok")
          /\ locals' = [locals EXCEPT ![i] = [stackInfo |-> [StackName |-> CleanupStackName]]]
          /\ Goto(i, "emptyS3Buckets")
          /\ UNCHANGED <<error, raised, response>>
       \/ \E e \in StackErrors :
              /\ Settle(i, e.code)
              /\ IF e.code = "ValidationError"
                    THEN /\ Resolve(i)
                         /\ UNCHANGED <<error, raised>>
                    ELSE Abort(i, e.message)
              /\ UNCHANGED locals
    /\ UNCHANGED <<orchestratorVars, notifierVars, files, env, now, event>>

ListStackResources(i) ==
    /\ pc[i] = "emptyS3Buckets"
    /\ Issue(i, "listStackResources", [StackName |-> locals[i].stackInfo.StackName])
    /\ UNCHANGED <<scriptVars, orchestratorVars, notifierVars, env, now, event, pc, idx,
                   error, raised, response>>

ListStackResourcesDone(i) ==
    /\ pc[i] = "emptyS3Buckets"
    /\ pending[i] # 0
    /\ \/ \E buckets \in BucketLists :
              /\ Settle(i, "ok")
              /\ locals' = [locals EXCEPT ![i] = [stackInfo |-> @.stackInfo, s3Buckets |-> buckets]]
              /\ Goto(i, IF buckets = <<>> THEN "deleteStack" ELSE "listObjectsV2")
              /\ UNCHANGED <<error, raised, response>>
       \/ \E e \in StackErrors :
              /\ Settle(i, e.code)
              /\ Abort(i, e.message)
              /\ UNCHANGED locals
    /\ UNCHANGED <<orchestratorVars, notifierVars, files, env, now, event>>

\* The bucket of the running iteration of for (const bucketName of s3Buckets).
BucketName(i) == locals[i].s3Buckets[idx[i]]

\* The iteration ends: the next bucket, or the end of emptyS3Buckets.
NextBucket(i) ==
    IF idx[i] < Len(locals[i].s3Buckets)
       THEN /\ idx' = [idx EXCEPT ![i] = @ + 1]
            /\ pc' = [pc EXCEPT ![i] = "listObjectsV2"]
       ELSE Goto(i, "deleteStack")

\* Variant: a failure to empty a bucket is logged and the loop goes on.
BucketCatch_LogOnly(i, code) ==
    /\ NextBucket(i)
    /\ UNCHANGED <<error, raised, response>>

\* The catch of the iteration: a bucket that does not exist is skipped, any
\* other error is rethrown.
BucketCatch(i, code) ==
    IF code = "NoSuchBucket"
       THEN /\ NextBucket(i)
            /\ UNCHANGED <<error, raised, response>>
       ELSE /\ error' = [error EXCEPT ![i] = <<code>>]
            /\ raised' = [raised EXCEPT ![i] = Append(@, <<code>>)]
            /\ response' = [response EXCEPT ![i] = [kind |-> "exited", code |-> ExitFailure]]
            /\ pc' = [pc EXCEPT ![i] = "done"]
            /\ UNCHANGED idx

\* What follows the deletion of the listed objects, versions or markers.
AfterStage(i, stage, versions) ==
    LET next == IF stage = "listObjectVersions" /\ versions.Versions # <<>> THEN "deleteVersions"
                ELSE IF stage \in {"listObjectVersions", "deleteVersions"}
                        /\ versions.DeleteMarkers # <<>> THEN "deleteMarkers"
                ELSE "nextBucket"
    IN  IF next = "nextBucket" THEN NextBucket(i)
        ELSE /\ pc' = [pc EXCEPT ![i] = next]
             /\ UNCHANGED idx

ListObjectsV2(i) ==
    /\ pc[i] = "listObjectsV2"
    /\ Issue(i, "listObjectsV2", [Bucket |-> BucketName(i)])
    /\ UNCHANGED <<scriptVars, orchestratorVars, notifierVars, env, now, event, pc, idx,
                   error, raised, response>>

ListObjectsV2Done(i) ==
    /\ pc[i] = "listObjectsV2"
    /\ pending[i] # 0
    /\ \/ \E contents \in ObjectListings :
              /\ Settle(i, "ok")
              /\ locals' = [locals EXCEPT ![i] =
                     [stackInfo |-> @.stackInfo, s3Buckets |-> @.s3Buckets, objects |-> contents]]
              /\ pc' = [pc EXCEPT ![i] = IF contents # <<>> THEN "deleteObjects" ELSE "listObjectVersions"]
              /\ UNCHANGED <<idx, error, raised, response>>
       \/ \E code \in S3ErrorCodes :
              /\ Settle(i, code)
              /\ BucketCatch(i, code)
              /\ UNCHANGED locals
    /\ UNCHANGED <<orchestratorVars, notifierVars, files, env, now, event>>

\* The keys that the deleteObjects call of the running stage names.
ObjectsToDelete(i) ==
    IF pc[i] = "deleteObjects" THEN locals[i].objects
    ELSE IF pc[i] = "deleteVersions" THEN locals[i].versions.Versions
    ELSE locals[i].versions.DeleteMarkers

DeleteObjects(i) ==
    /\ pc[i] \in {"deleteObjects", "deleteVersions", "deleteMarkers"}
    /\ Issue(i, "deleteObjects", [Bucket |-> BucketName(i), Delete |-> [Objects |-> ObjectsToDelete(i)]])
    /\ UNCHANGED <<scriptVars, orchestratorVars, notifierVars, env, now, event, pc, idx,
                   error, raised, response>>

DeleteObjectsDone(i) ==
    /\ pc[i] \in {"deleteObjects", "deleteVersions", "deleteMarkers"}
    /\ pending[i] # 0
    /\ \/ /\ Settle(i, "ok")
          /\ IF pc[i] = "deleteObjects"
                THEN /\ pc' = [pc EXCEPT ![i] = "listObjectVersions"]
                     /\ UNCHANGED idx
                ELSE AfterStage(i, pc[i], locals[i].versions)
          /\ UNCHANGED <<error, raised, response>>
       \/ \E code \in S3ErrorCodes :
              /\ Settle(i, code)
              /\ BucketCatch(i, code)
    /\ UNCHANGED <<scriptVars, orchestratorVars, notifierVars, env, now, event>>

ListObjectVersions(i) ==
    /\ pc[i] = "listObjectVersions"
    /\ Issue(i, "listObjectVersions", [Bucket |-> BucketName(i)])
    /\ UNCHANGED <<scriptVars, orchestratorVars, notifierVars, env, now, event, pc, idx,
                   error, raised, response>>

ListObjectVersionsDone(i) ==
    /\ pc[i] = "listObjectVersions"
    /\ pending[i] # 0
    /\ \/ \E versions \in VersionListings :
              /\ Settle(i, "ok")
              /\ locals' = [locals EXCEPT ![i] =
                     [stackInfo |-> @.stackInfo, s3Buckets |-> @.s3Buckets, versions |-> versions]]
              /\ AfterStage(i, "listObjectVersions", versions)
              /\ UNCHANGED <<error, raised, response>>
       \/ \E code \in S3ErrorCodes :
              /\ Settle(i, code)
              /\ BucketCatch(i, code)
              /\ UNCHANGED locals
    /\ UNCHANGED <<orchestratorVars, notifierVars, files, env, now, event>>

DeleteStack(i) ==
    /\ pc[i] = "deleteStack"
    /\ Issue(i, "deleteStack", [StackName |-> CleanupStackName])
    /\ UNCHANGED <<scriptVars, orchestratorVars, notifierVars, env, now, event, pc, idx,
                   error, raised, response>>

\* The catch of deleteStack: a stack that does not exist is not an error.
DeleteStackCatch(i, e) ==
    IF e.code = "ValidationError" /\ ContainsText(e.message, <<" does not exist">>)
       THEN /\ Goto(i, "deleteParameter")
            /\ UNCHANGED <<error, raised, response>>
       ELSE Abort(i, e.message)

DeleteStackDone(i) ==
    /\ pc[i] = "deleteStack"
    /\ pending[i] # 0
    /\ \/ /\ Settle(i, "ok")
          /\ Goto(i, "stackDeleteComplete")
          /\ UNCHANGED <<error, raised, response>>
       \/ \E e \in StackErrors :
              /\ Settle(i, e.code)
              /\ DeleteStackCatch(i, e)
    /\ UNCHANGED <<scriptVars, orchestratorVars, notifierVars, env, now, event>>

StackDeleteComplete(i) ==
    /\ pc[i] = "stackDeleteComplete"
    /\ Issue(i, "waitFor", [state |-> "stackDeleteComplete", StackName |-> CleanupStackName])
    /\ UNCHANGED <<scriptVars, orchestratorVars, notifierVars, env, now, event, pc, idx,
                   error, raised, response>>

StackDeleteCompleteDone(i) ==
    /\ pc[i] = "stackDeleteComplete"
    /\ pending[i] # 0
    /\ \/ /\ Settle(i, "ok")
          /\ Goto(i, "deleteParameter")
          /\ UNCHANGED <<error, raised, response>>
       \/ \E e \in StackErrors :
              /\ Settle(i, e.code)
              /\ DeleteStackCatch(i, e)
    /\ UNCHANGED <<scriptVars, orchestratorVars, notifierVars, env, now, event>>

DeleteParameter(i) ==
    /\ pc[i] = "deleteParameter"
    /\ Issue(i, "deleteParameter", [Name |-> ParameterNames[idx[i]]])
    /\ UNCHANGED <<scriptVars, orchestratorVars, notifierVars, env, now, event, pc, idx,
                   error, raised, response>>

\* Every failure to delete a parameter is logged and the loop goes on.
DeleteParameterDone(i) ==
    /\ pc[i] = "deleteParameter"
    /\ pending[i] # 0
    /\ \E status \in {"ok"} \cup ParameterErrorCodes : Settle(i, status)
    /\ IF idx[i] < Len(ParameterNames)
          THEN /\ idx' = [idx EXCEPT ![i] = @ + 1]
               /\ UNCHANGED <<pc, response>>
          ELSE Resolve(i)
    /\ UNCHANGED <<scriptVars, orchestratorVars, notifierVars, env, now, event, error, raised>>

CleanupInit ==
    /\ env = [NODE_ENV |-> Unset, AWS_REGION |-> "eu-west-1"]
    /\ now = 0
    /\ event = [i \in Handlers |-> EmptyObject]
    /\ pc = [i \in Handlers |-> "getStackInfo"]
    /\ pending = [i \in Handlers |-> 0]
    /\ idx = [i \in Handlers |-> 1]
    /\ config = [i \in Handlers |-> EmptyObject]
    /\ artifacts = [i \in Handlers |-> EmptyObject]
    /\ updateResult = [i \in Handlers |-> EmptyObject]
    /\ deploymentResult = [i \in Handlers |-> NoResult]
    /\ error = [i \in Handlers |-> <<>>]
    /\ raised = [i \in Handlers |-> <<>>]
    /\ calls = <<>>
    /\ response = [i \in Handlers |-> NoResponse]
    /\ pipelineExecution = [i \in Handlers |-> Undefined]
    /\ slackMessage = [i \in Handlers |-> Undefined]
    /\ locals = [i \in Handlers |-> EmptyObject]
    /\ files = {}

CleanupNext ==
    \E i \in Handlers :
        \/ GetStackInfo(i)
        \/ GetStackInfoDone(i)
        \/ ListStackResources(i)
        \/ ListStackResourcesDone(i)
        \/ ListObjectsV2(i)
        \/ ListObjectsV2Done(i)
        \/ DeleteObjects(i)
        \/ DeleteObjectsDone(i)
        \/ ListObjectVersions(i)
        \/ ListObjectVersionsDone(i)
        \/ DeleteStack(i)
        \/ DeleteStackDone(i)
        \/ StackDeleteComplete(i)
        \/ StackDeleteCompleteDone(i)
        \/ DeleteParameter(i)
        \/ DeleteParameterDone(i)

CleanupSpec == CleanupInit /\ [][CleanupNext]_vars

BucketOps == {"listObjectsV2", "deleteObjects", "listObjectVersions"}

\* The calls invocation i made on bucket b before call k.
BucketCallsBefore(i, b, k) ==
    {j \in CallsOf(i, BucketOps) : j < k /\ calls[j].params.Bucket = b}

\* Before call k, bucket b was emptied: its objects and its versions were
\* listed and every call on it succeeded, or its last call found it missing.
Emptied(i, b, k) ==
    LET cs == BucketCallsBefore(i, b, k)
    IN  \/ /\ \E j \in cs : calls[j].op = "listObjectsV2"
           /\ \E j \in cs : calls[j].op = "listObjectVersions"
           /\ \A j \in cs : calls[j].status = "ok"
        \/ \E j \in cs :
               /\ calls[j].status = "NoSuchBucket"
               /\ \A m \in cs : m <= j /\ (m < j => calls[m].status = "ok")

\* The last call on the stack that invocation i made before call k, 0 if none.
LastStackCallBefore(i, k) ==
    LET cs == {j \in CallsOf(i, {"deleteStack", "waitFor"}) : j < k}
    IN  IF cs = {} THEN 0 ELSE CHOOSE j \in cs : \A m \in cs : m <= j

\* The deleteStack step ended normally before call k: the wait for the
\* deletion succeeded, or the stack was reported as not existing any more.
StackDeletedBefore(i, k) ==
    LET j == LastStackCallBefore(i, k)
    IN  /\ j # 0
        /\ \/ calls[j].op = "waitFor" /\ calls[j].status = "ok"
           \/ calls[j].status = "ValidationError"

(* C39: in the cleanup script, deleteStack is requested only after every S3
   bucket that the stack lists has been emptied without error (a bucket found
   not to exist counts as emptied); when the stack lookup reports that the
   stack does not exist, cleanup returns without any further call; and a
   parameter is deleted only after the stack deletion step has ended normally
   (the wait for the deletion succeeded, or the stack was by then reported as
   not existing). *)
C39_CleanupOrder ==
    \A i \in DOMAIN pc :
        /\ Cardinality(CallsOf(i, {"deleteStack"})) <= 1
        /\ \A k \in CallsOf(i, {"deleteStack"}) :
               /\ \E l \in CallsOf(i, {"listStackResources"}) : l < k /\ calls[l].status = "ok"
               /\ \A n \in DOMAIN locals[i].s3Buckets : Emptied(i, locals[i].s3Buckets[n], k)
        /\ \A k \in CallsOf(i, {"describeStacks"}) :
               calls[k].status \notin {"ok", "pending"} =>
                   /\ \A j \in DOMAIN calls : j <= k
                   /\ Finished(i)
                   /\ calls[k].status = "ValidationError" => response[i].kind = "resolved"
        /\ \A k \in CallsOf(i, {"deleteParameter"}) : StackDeletedBefore(i, k)

C39_Witness ==
    \E i \in DOMAIN pc :
        /\ Finished(i)
        /\ response[i].kind = "resolved"
        /\ "s3Buckets" \in DOMAIN locals[i]
        /\ Len(locals[i].s3Buckets) = MaxBuckets
        /\ \E k \in CallsOf(i, {"listObjectVersions"}) : calls[k].status = "NoSuchBucket"
        /\ \E k \in CallsOf(i, {"deleteObjects"}) :
               calls[k].status = "ok" /\ calls[k].params.Delete.Objects[1] = [Key |-> "build.zip"]
        /\ \E k \in CallsOf(i, {"waitFor"}) : calls[k].status = "ok"
        /\ Cardinality(CallsOf(i, {"deleteParameter"})) = Len(ParameterNames)

-----------------------------------------------------------------------------
(* The deploy script (deploy): validate the environment, store the secrets,  *)
(* deploy the stack.                                                          *)

RequiredVariables ==
    <<"AWS_REGION", "GITHUB_TOKEN", "REPOSITORY_OWNER", "REPOSITORY_NAME", "SLACK_WEBHOOK_URL">>

\* process.env as the deploy script may find it; an empty value is falsy.
DeployEnvironments ==
    [AWS_REGION : {Unset, "eu-west-1"},
     GITHUB_TOKEN : {Unset, "", "ghp_token"},
     REPOSITORY_OWNER : {"owner"},
     REPOSITORY_NAME : {Unset, "repository"},
     SLACK_WEBHOOK_URL : {Unset, SlackUrl},
     NODE_ENV : {Unset, "production"}]

\* required.filter(key => !process.env[key])
Missing(e) ==
    SelectSeq(RequiredVariables, LAMBDA key : e[key] \in {Unset, ""})

TemplatePath == "../infrastructure/add-codebuild.yml"

DeployStackName(e) == <<"lambdadeploy-codebuild-", IF e.NODE_ENV \in {Unset, ""} THEN "dev" ELSE e.NODE_ENV>>

\* The secrets storeSecrets writes, in order.
Secrets(e) ==
    << [name |-> "/lambdadeploy/slack-webhook-url", value |-> e.SLACK_WEBHOOK_URL],
       [name |-> "/lambdadeploy/github-token", value |-> e.GITHUB_TOKEN] >>

\* The errors a CloudFormation call of the deploy script may reject with.
DeployErrors ==
    { [code |-> "ValidationError", message |-> <<"Stack with id ", "lambdadeploy-codebuild", " does not exist">>],
      [code |-> "ValidationError", message |-> <<"No updates", " are to be performed.">>],
      [code |-> "AccessDenied", message |-> <<"AccessDenied">>] }

\* Variant: missing variables are reported and the deployment goes on.
ValidateEnvironment_WarnOnly(i) ==
    /\ pc[i] = "validateEnvironment"
    /\ Goto(i, "storeSecrets")
    /\ UNCHANGED <<error, raised, response>>
    /\ UNCHANGED <<scriptVars, orchestratorVars, notifierVars, env, now, event, pending, calls>>

ValidateEnvironment(i) ==
    /\ pc[i] = "validateEnvironment"
    /\ IF Len(Missing(env)) > 0
          THEN Abort(i, <<"Missing required environment variables: ">> \o Missing(env))
          ELSE /\ Goto(i, "storeSecrets")
               /\ UNCHANGED <<error, raised, response>>
    /\ UNCHANGED <<scriptVars, orchestratorVars, notifierVars, env, now, event, pending, calls>>

PutParameter(i) ==
    /\ pc[i] = "storeSecrets"
    /\ Issue(i, "putParameter",
             [Name |-> Secrets(env)[idx[i]].name, Value |-> Secrets(env)[idx[i]].value,
              Type |-> "SecureString", Overwrite |-> TRUE])
    /\ UNCHANGED <<scriptVars, orchestratorVars, notifierVars, env, now, event, pc, idx,
                   error, raised, response>>

\* The catch of the loop logs the failure and rethrows it.
PutParameterDone(i) ==
    /\ pc[i] = "storeSecrets"
    /\ pending[i] # 0
    /\ \/ /\ Settle(i, "ok")
          /\ IF idx[i] < Len(Secrets(env))
                THEN /\ idx' = [idx EXCEPT ![i] = @ + 1]
                     /\ UNCHANGED pc
                ELSE Goto(i, "deployStack")
          /\ UNCHANGED <<error, raised, response>>
       \/ \E code \in ParameterErrorCodes :
              /\ Settle(i, code)
              /\ Abort(i, <<code>>)
    /\ UNCHANGED <<scriptVars, orchestratorVars, notifierVars, env, now, event>>

\* deployStack: the template must exist; then the stack is looked up.
DescribeStacks(i) ==
    /\ pc[i] = "deployStack"
    /\ pending[i] = 0
    /\ IF TemplatePath \notin files
          THEN /\ Abort(i, <<"CloudFormation template not found: ", TemplatePath>>)
               /\ UNCHANGED <<pending, calls>>
          ELSE /\ Issue(i, "describeStacks", [StackName |-> DeployStackName(env)])
               /\ UNCHANGED <<pc, idx, error, raised, response>>
    /\ UNCHANGED <<scriptVars, orchestratorVars, notifierVars, env, now, event>>

\* The catch of deployStack: an update without changes is not an error.
DeployStackCatch(i, e) ==
    IF e.code = "ValidationError" /\ ContainsText(e.message, <<"No updates">>)
       THEN /\ Resolve(i)
            /\ UNCHANGED <<error, raised>>
       ELSE Abort(i, e.message)

\* stackExists is true when the lookup resolves; a ValidationError leaves it false.
DescribeStacksDone(i) ==
    /\ pc[i] = "deployStack"
    /\ pending[i] # 0
    /\ \/ /\ Settle(i, "ok")
          /\ locals' = [locals EXCEPT ![i] = [stackExists |-> TRUE]]
          /\ Goto(i, "operation")
          /\ UNCHANGED <<error, raised, response>>
       \/ \E e \in DeployErrors :
              /\ Settle(i, e.code)
              /\ IF e.code # "ValidationError"
                    THEN /\ DeployStackCatch(i, e)
                         /\ UNCHANGED locals
                    ELSE /\ locals' = [locals EXCEPT ![i] = [stackExists |-> FALSE]]
                         /\ Goto(i, "operation")
                         /\ UNCHANGED <<error, raised, response>>
    /\ UNCHANGED <<orchestratorVars, notifierVars, files, env, now, event>>

\* updateStack for an existing stack, createStack otherwise.
StackOperation(i) ==
    /\ pc[i] = "operation"
    /\ IF locals[i].stackExists
          THEN Issue(i, "updateStack",
                     [StackName |-> DeployStackName(env), TemplateBody |-> TemplatePath])
          ELSE Issue(i, "createStack",
                     [StackName |-> DeployStackName(env), TemplateBody |-> TemplatePath,
                      Tags |-> << [Key |-> "Project", Value |-> "LambdaDeploy"],
                                  [Key |-> "Environment",
                                   Value |-> IF env.NODE_ENV \in {Unset, ""} THEN "development"
                                             ELSE env.NODE_ENV] >>])
    /\ UNCHANGED <<scriptVars, orchestratorVars, notifierVars, env, now, event, pc, idx,
                   error, raised, response>>

StackOperationDone(i) ==
    /\ pc[i] = "operation"
    /\ pending[i] # 0
    /\ \/ /\ Settle(i, "ok")
          /\ Goto(i, "stackComplete")
          /\ UNCHANGED <<error, raised, response>>
       \/ \E e \in DeployErrors :
              /\ Settle(i, e.code)
              /\ DeployStackCatch(i, e)
    /\ UNCHANGED <<scriptVars, orchestratorVars, notifierVars, env, now, event>>

StackComplete(i) ==
    /\ pc[i] = "stackComplete"
    /\ Issue(i, "waitFor",
             [state |-> IF locals[i].stackExists THEN "stackUpdateComplete" ELSE "stackCreateComplete",
              StackName |-> DeployStackName(env)])
    /\ UNCHANGED <<scriptVars, orchestratorVars, notifierVars, env, now, event, pc, idx,
                   error, raised, response>>

StackCompleteDone(i) ==
    /\ pc[i] = "stackComplete"
    /\ pending[i] # 0
    /\ \/ /\ Settle(i, "ok")
          /\ Goto(i, "stackOutputs")
          /\ UNCHANGED <<error, raised, response>>
       \/ \E e \in DeployErrors :
              /\ Settle(i, e.code)
              /\ DeployStackCatch(i, e)
    /\ UNCHANGED <<scriptVars, orchestratorVars, notifierVars, env, now, event>>

StackOutputs(i) ==
    /\ pc[i] = "stackOutputs"
    /\ Issue(i, "describeStacks", [StackName |-> DeployStackName(env)])
    /\ UNCHANGED <<scriptVars, orchestratorVars, notifierVars, env, now, event, pc, idx,
                   error, raised, response>>

StackOutputsDone(i) ==
    /\ pc[i] = "stackOutputs"
    /\ pending[i] # 0
    /\ \/ /\ Settle(i, "ok")
          /\ Resolve(i)
          /\ UNCHANGED <<error, raised>>
       \/ \E e \in DeployErrors :
              /\ Settle(i, e.code)
              /\ DeployStackCatch(i, e)
    /\ UNCHANGED <<scriptVars, orchestratorVars, notifierVars, env, now, event>>

DeployInit ==
    /\ env \in DeployEnvironments
    /\ now = 0
    /\ event = [i \in Handlers |-> EmptyObject]
    /\ pc = [i \in Handlers |-> "validateEnvironment"]
    /\ pending = [i \in Handlers |-> 0]
    /\ idx = [i \in Handlers |-> 1]
    /\ config = [i \in Handlers |-> EmptyObject]
    /\ artifacts = [i \in Handlers |-> EmptyObject]
    /\ updateResult = [i \in Handlers |-> EmptyObject]
    /\ deploymentResult = [i \in Handlers |-> NoResult]
    /\ error = [i \in Handlers |-> <<>>]
    /\ raised = [i \in Handlers |-> <<>>]
    /\ calls = <<>>
    /\ response = [i \in Handlers |-> NoResponse]
    /\ pipelineExecution = [i \in Handlers |-> Undefined]
    /\ slackMessage = [i \in Handlers |-> Undefined]
    /\ locals = [i \in Handlers |-> EmptyObject]
    /\ files \in SUBSET {TemplatePath}

DeployNext ==
    \E i \in Handlers :
        \/ ValidateEnvironment(i)
        \/ PutParameter(i)
        \/ PutParameterDone(i)
        \/ DescribeStacks(i)
        \/ DescribeStacksDone(i)
        \/ StackOperation(i)
        \/ StackOperationDone(i)
        \/ StackComplete(i)
        \/ StackCompleteDone(i)
        \/ StackOutputs(i)
        \/ StackOutputsDone(i)

DeploySpec == DeployInit /\ [][DeployNext]_vars

StackOps == {"describeStacks", "createStack", "updateStack", "waitFor"}

\* The secrets were all stored before call k, in order and without failure.
SecretsStoredBefore(i, k) ==
    LET puts == {j \in CallsOf(i, {"putParameter"}) : j < k}
    IN  /\ Cardinality(puts) = Len(Secrets(env))
        /\ \A j \in puts :
               /\ calls[j].status = "ok"
               /\ calls[j].params.Name = Secrets(env)[RankOf(i, {"putParameter"}, j)].name

\* The stack lookup that precedes the create or update call k.
LookupBefore(i, k) ==
    CHOOSE d \in CallsOf(i, {"describeStacks"}) :
        d < k /\ \A j \in CallsOf(i, {"describeStacks"}) : j < k => j <= d

(* C40: the deploy script validates the environment, then stores the secrets,
   then deploys the stack: with a required variable missing it makes no call
   at all; a stack call is issued only after every secret was stored, so a
   failed store is followed by no call; and it issues at most one of
   createStack and updateStack: updateStack when the lookup found the stack,
   createStack when the lookup reported that it does not exist. *)
C40_DeployOrder ==
    \A i \in DOMAIN pc :
        /\ Len(Missing(env)) > 0 =>
               /\ calls = <<>>
               /\ Finished(i) => response[i] = [kind |-> "exited", code |-> ExitFailure]
        /\ \A k \in CallsOf(i, StackOps) : SecretsStoredBefore(i, k)
        /\ \A k \in CallsOf(i, {"putParameter"}) :
               calls[k].status \notin {"ok", "pending"} =>
                   /\ \A j \in DOMAIN calls : j <= k
                   /\ response[i] = [kind |-> "exited", code |-> ExitFailure]
        /\ Cardinality(CallsOf(i, {"createStack", "updateStack"})) <= 1
        /\ \A k \in CallsOf(i, {"updateStack"}) :
               \E d \in CallsOf(i, {"describeStacks"}) :
                   d = LookupBefore(i, k) /\ calls[d].status = "ok"
        /\ \A k \in CallsOf(i, {"createStack"}) :
               \E d \in CallsOf(i, {"describeStacks"}) :
                   d = LookupBefore(i, k) /\ calls[d].status = "ValidationError"

C40_Witness ==
    \E i \in DOMAIN pc :
        /\ Finished(i)
        /\ response[i].kind = "resolved"
        /\ \E k \in CallsOf(i, {"updateStack"}) : calls[k].status = "ok"
        /\ \E k \in CallsOf(i, {"waitFor"}) : calls[k].status = "ok"
        /\ Cardinality(CallsOf(i, {"putParameter"})) = Len(Secrets(env))

====
